---- MODULE Spec2Model ----
(***************************************************************************)
(* Model of the OAuth 2 authorization proxy of the API Console extension   *)
(* (class OAuth2Proxy): one instance, one authorize() call, the tab events *)
(* of chrome.tabs.onUpdated / onRemoved and the completions of the token   *)
(* request.  Every action is one turn of the JavaScript event loop: a      *)
(* handler runs from its entry to its next await on an external event.     *)
(***************************************************************************)
EXTENDS Integers, Sequences, FiniteSets, TLC

(***************************************************************************)
(* Values.  Null stands for the JavaScript values null and undefined; ""   *)
(* is the empty string.  Both are falsy.                                   *)
(***************************************************************************)
Null == "<undefined>"

\* undefined, where the value is otherwise an object.
Undefined == [kind |-> "undefined"]

\* this._popupTabInfo when no tab is known (the ids of tabs are positive).
NoTab == 0

Truthy(v) == v # Null /\ v # ""

\* Bounds of the model.
MaxMatched == 2

\* A string that is split or joined, as the sequence of its characters, and a
\* list of strings; `present' is FALSE for undefined.
NoScope == [present |-> FALSE, chars |-> <<>>]
ScopeString(chars) == [present |-> TRUE, chars |-> chars]
NoScopes == [present |-> FALSE, list |-> <<>>]
ScopeList(list) == [present |-> TRUE, list |-> list]

\* The grant type names.
implicit == "implicit"
code == "authorization_code"
clientCredentials == "client_credentials"
password == "password"
deviceCode == "urn:ietf:params:oauth:grant-type:device_code"
jwtBearer == "urn:ietf:params:oauth:grant-type:jwt-bearer"
CustomGrant == "urn:example:custom_grant"

PopupGrants == {implicit, code}
DirectGrants == {clientCredentials, password, deviceCode, jwtBearer, CustomGrant}

grantResponseMapping(grantType) ==
  CASE grantType = implicit -> "token"
    [] grantType = code -> "code"
    [] OTHER -> Null

\* Inputs of the model.
AuthUri == "https://auth.example/authorize"
TokenUri == "https://auth.example/token"
BadUri == "not a url"
RedirectUri == "https://app.example/popup.html"
OtherUri == "https://auth.example/login"
RequestStates == {"abc", Null}
RandomStrings == {"gen", "gen2"}
OwnTab == 7
OtherTab == 8

\* new URL(value) throws a TypeError for a value that is not an absolute URL.
IsValidUrl(value) == value \in {AuthUri, TokenUri, RedirectUri, OtherUri}

\* The configurations of the grants: every grant with and without a state; for
\* some of them a list of requested scopes, or an access token URI that is not a URL.
GrantConfigs ==
  { c \in [grantType : PopupGrants, responseType : {Null, "id_token"},
            state : RequestStates, authorizationUri : {AuthUri, BadUri},
            accessTokenUri : {TokenUri}, redirectUri : {RedirectUri},
            scopes : {NoScopes}] :
      c.responseType = "id_token" => c.grantType = code }
  \cup
  [grantType : DirectGrants, responseType : {Null},
   state : RequestStates, authorizationUri : {Null},
   accessTokenUri : {TokenUri}, redirectUri : {Null}, scopes : {NoScopes}]
  \cup
  [grantType : PopupGrants, responseType : {Null},
   state : {"abc"}, authorizationUri : {AuthUri},
   accessTokenUri : {TokenUri}, redirectUri : {RedirectUri},
   scopes : {ScopeList(<<>>), ScopeList(<<"a", "b">>)}]
  \cup
  [grantType : {password}, responseType : {Null},
   state : {"abc"}, authorizationUri : {Null},
   accessTokenUri : {TokenUri}, redirectUri : {Null},
   scopes : {ScopeList(<<>>), ScopeList(<<"a", "b">>)}]
  \cup
  [grantType : {code}, responseType : {Null},
   state : {"abc"}, authorizationUri : {AuthUri},
   accessTokenUri : {BadUri}, redirectUri : {RedirectUri}, scopes : {NoScopes}]
  \cup
  [grantType : {clientCredentials, CustomGrant}, responseType : {Null},
   state : {"abc"}, authorizationUri : {Null},
   accessTokenUri : {BadUri}, redirectUri : {Null}, scopes : {NoScopes}]

\* The credentials of the client and the way client_credentials delivers them.
ClientIds == {Null, "id"}
ClientSecrets == {Null, "s3cret", "other"}
DeliveryMethods == {Null, "body", "header"}
DeliveryNames == {Null, "x-auth"}

WithoutSecret == [clientId |-> "id", clientSecret |-> Null,
                  deliveryMethod |-> Null, deliveryName |-> Null, pkce |-> FALSE]

\* The configurations: the ones of the grants for a client without a secret;
\* the popup grants for a client with a secret; client_credentials with every
\* way of delivering the credentials; the popup grants with PKCE; the password
\* and the custom grant with the credentials asked for in a header; the
\* password grant with the response type and the URIs of a popup grant.
Configs ==
  { c @@ WithoutSecret : c \in GrantConfigs }
  \cup
  { [c @@ WithoutSecret EXCEPT !.clientSecret = secret] :
      c \in [grantType : PopupGrants, responseType : {Null},
              state : {"abc"}, authorizationUri : {AuthUri},
              accessTokenUri : {TokenUri}, redirectUri : {RedirectUri},
              scopes : {ScopeList(<<"a", "b">>)}],
      secret \in ClientSecrets \ {Null} }
  \cup
  { c @@ d :
      c \in [grantType : {clientCredentials}, responseType : {Null},
              state : {"abc"}, authorizationUri : {Null},
              accessTokenUri : {TokenUri}, redirectUri : {Null}, scopes : {NoScopes}],
      d \in [clientId : ClientIds, clientSecret : ClientSecrets \ {"other"},
              deliveryMethod : DeliveryMethods, deliveryName : DeliveryNames,
              pkce : {FALSE}] }
  \cup
  { [c @@ WithoutSecret EXCEPT !.pkce = TRUE] :
      c \in { g \in [grantType : PopupGrants, responseType : {Null, "id_token"},
                      state : {"abc"}, authorizationUri : {AuthUri},
                      accessTokenUri : {TokenUri}, redirectUri : {RedirectUri},
                      scopes : {NoScopes}] :
                g.responseType = "id_token" => g.grantType = code } }
  \cup
  { [c @@ WithoutSecret EXCEPT !.clientSecret = "s3cret", !.deliveryMethod = "header"] :
      c \in [grantType : {password, CustomGrant}, responseType : {Null},
              state : {"abc"}, authorizationUri : {Null},
              accessTokenUri : {TokenUri}, redirectUri : {Null}, scopes : {NoScopes}] }
  \cup
  { c @@ WithoutSecret :
      c \in [grantType : {password}, responseType : {"token"},
              state : {"abc"}, authorizationUri : {AuthUri},
              accessTokenUri : {TokenUri}, redirectUri : {RedirectUri}, scopes : {NoScopes}] }

(***************************************************************************)
(* The parameters of a redirect URL (its query string or its fragment), as *)
(* the list of the keys the proxy reads; `other' is any other key.         *)
(***************************************************************************)
Params(state, error, description, token, authCode, other) ==
  [state |-> state, error |-> error, error_description |-> description,
   access_token |-> token, code |-> authCode, other |-> other,
   expires_in |-> Null, scope |-> NoScope, token_type |-> Null, refresh_token |-> Null]

EmptyParams == Params(Null, Null, Null, Null, Null, Null)

\* The values of expires_in, of scope and of token_type an authorization server sends.
ExpiresValues == {Null, "0", "7200", "soon"}
TokenTypes == {"Bearer", "mac"}
ServerScopes == {NoScope, ScopeString(<<>>), ScopeString(<<"a">>),
                 ScopeString(<<"a", " ", "c">>)}

\* The state a redirect can carry, for the request state st: none, the empty
\* string, the request state, another value.
StateValues(st) == {Null, "", st, "xyz"}

ErrorCodes == {"interaction_required", "invalid_request", "invalid_client",
               "invalid_grant", "unauthorized_client", "unsupported_grant_type",
               "invalid_scope"}

RedirectParams(st) ==
  \* every state value against the other fields
  { Params(s, e, Null, t, c, Null) :
      s \in StateValues(st), e \in {Null, "invalid_client"},
      t \in {Null, "tok"}, c \in {Null, "c0de"} }
  \cup
  \* an empty access_token, an empty code
  { Params(st, Null, Null, t, c, Null) : t \in {Null, "", "tok"}, c \in {Null, "", "c0de"} }
  \cup
  \* every error code and description
  { Params(st, e, d, Null, Null, Null) :
      e \in ErrorCodes \cup {"", "server_down"}, d \in {Null, "", "described"} }
  \cup
  \* no parameter at all, and only a parameter that is not an OAuth one
  { EmptyParams, Params(Null, Null, Null, Null, Null, "v") }
  \cup
  \* a token with its lifetime and its scope
  { [Params(st, Null, Null, "tok", Null, Null) EXCEPT !.expires_in = e] : e \in ExpiresValues }
  \cup
  { [Params(st, Null, Null, "tok", Null, Null) EXCEPT !.scope = sc] : sc \in ServerScopes }
  \cup
  \* a token with its type and a refresh token
  { [Params(st, Null, Null, "tok", Null, Null) EXCEPT !.token_type = tt, !.refresh_token = rt] :
      tt \in TokenTypes, rt \in {Null, "r3fresh"} }

Has(oauthParams, name) == oauthParams[name] # Null

\* The URLs a tab can report.  The authorization data is in the query string
\* or in the fragment; some URLs have both a query string and a fragment.
RedirectUrls(st) ==
  { [base |-> RedirectUri, search |-> p, hash |-> EmptyParams] : p \in RedirectParams(st) }
  \cup
  { [base |-> RedirectUri, search |-> EmptyParams, hash |-> Params(s, Null, Null, "tok", Null, Null)] :
      s \in {st, "xyz"} }
  \cup
  { [base |-> RedirectUri, search |-> Params(Null, Null, Null, Null, Null, "v"),
     hash |-> Params(st, Null, Null, "tok", "c0de", Null)],
    [base |-> RedirectUri, search |-> Params(st, Null, Null, "tok", "c0de", Null),
     hash |-> Params("xyz", "invalid_client", Null, Null, Null, Null)] }

OtherUrls(st) ==
  { [base |-> OtherUri, search |-> Params(st, Null, Null, "tok", "c0de", Null), hash |-> EmptyParams] }

\* A page of the authorization server whose query string has the redirect URI
\* of the application as the value of a parameter.
EmbeddingUrls(st) ==
  { [base |-> OtherUri, search |-> Params(st, Null, Null, "tok", Null, RedirectUri), hash |-> EmptyParams] }

Urls(st) == RedirectUrls(st) \cup OtherUrls(st) \cup EmbeddingUrls(st)

\* url.includes(value), for the value of a URI without query string or
\* fragment: the URL begins with it, or has it in the value of a parameter.
UrlIncludes(url, value) ==
  \/ url.base = value
  \/ url.search["other"] = value
  \/ url.hash["other"] = value

(***************************************************************************)
(* The promise returned by authorize().                                    *)
(***************************************************************************)
Pending == [kind |-> "pending"]

AuthorizationError(message, errorCode, state) ==
  [kind |-> "AuthorizationError", message |-> message, code |-> errorCode, state |-> state]

PlainError(message) == [kind |-> "Error", message |-> message]

Fulfilled(info) == [kind |-> "TokenInfo", info |-> info]

\* A promise keeps its first settlement.
Settle(promise, value) == IF promise = Pending THEN value ELSE promise

VARIABLES
  settings,               \* this._settingsValue, the frozen copy of the configuration,
                          \* with the values its fields refer to
  _stateValue,            \* this._stateValue
  _codeVerifierValue,     \* this._codeVerifierValue
  _popupTabInfo,          \* this._popupTabInfo: the id of the created tab, or NoTab
  _resolveFunction,       \* TRUE when this._resolveFunction is set
  _rejectFunction,        \* TRUE when this._rejectFunction is set
  _handlingPopupResponse, \* this._handlingPopupResponse
  _tokenResponse,         \* this._tokenResponse
  tabHandlers,            \* TRUE when the two tab listeners are registered
  pc,                     \* where the authorize() call is
  tab,                    \* the popup tab in the browser
  pendingFetches,         \* token requests in flight
  fetchesSent,            \* token requests sent so far
  unhandled,              \* the rejection of a promise nobody awaits, or Undefined
  outcome,                \* the promise returned by authorize()
  deliveries,             \* calls of the promise's resolve and reject functions
  matched,                \* navigations to the redirect URI handled so far
  requestBody,            \* the body of the last token request sent
  requestHeaders,         \* the headers of the last token request sent
  dateNow,                \* what Date.now() returned when the last token info was built
  last,                   \* the last handler run: its input and the call it ended with
  \* The page of API Console, the content script and the background service:
  _hasExtension,          \* ApiConsoleAppProxy: this._hasExtension
  appListening,           \* TRUE when the listeners of ApiConsoleAppProxy are registered
  contentListening,       \* TRUE when the listener of the content script is registered
  windowMessages,         \* the messages posted to the window and not yet dispatched
  runtimeRequests,        \* the messages sent to the background service and not yet received
  authorizing,            \* the attempts whose authorize() the service awaits
  runtimeResponses,       \* the responses of the service the content script has not yet received
  results,                \* for each attempt, what its authorize() was settled with
  oauthEvents,            \* the OAuth events dispatched on the page
  readyEvents,            \* how many times apicproxyready was dispatched
  calls,                  \* how many times listen(), informInstalled() and the page's request ran
  \* The HTTP requests of the page:
  _activeRequests,        \* ApiConsoleAppProxy: this._activeRequests
  serializing,            \* the requests whose _requestHandler awaits PayloadSerializer.serialize
  requestMessages,        \* the request messages posted to the window and not yet dispatched
  fetchMessages,          \* the fetch messages sent to the service and not yet received
  fetching,               \* the requests whose HttpProxy awaits fetch()
  fetchResults,           \* the results given to sendResponse the content script has not yet received
  responseMessages,       \* the response messages posted to the window and not yet dispatched
  apiResponses,           \* the details of the api-response events dispatched, by the id of the response
  aborted,                \* the ids whose abort-api-request event _abortHandler has handled
  sendResponses,          \* the calls of sendResponse for each fetch message received, by the id of the request
  apiRequested            \* how many api-request events the page dispatched

\* The variables of the OAuth2Proxy instance and of the page.
orchestrator == <<settings, _stateValue, _codeVerifierValue, _popupTabInfo, _resolveFunction, _rejectFunction,
                  _handlingPopupResponse, _tokenResponse, tabHandlers, pc, tab,
                  pendingFetches, fetchesSent, unhandled, outcome, deliveries, matched,
                  requestBody, requestHeaders, dateNow, last>>

page == <<_hasExtension, appListening, contentListening, windowMessages, runtimeRequests,
          authorizing, runtimeResponses, results, oauthEvents, readyEvents, calls>>

http == <<_activeRequests, serializing, requestMessages, fetchMessages, fetching, fetchResults,
          responseMessages, apiResponses, aborted, sendResponses, apiRequested>>

vars == <<orchestrator, page, http>>

\* The values of Date.now(), in milliseconds.
Times == {5000, 9000}

\* The body of a token request: the fields of the form, Null for a field that
\* is not set.
RequestBody(grantType, authCode, clientId, clientSecret) ==
  [grant_type |-> grantType, code |-> authCode,
   client_id |-> clientId, client_secret |-> clientSecret,
   redirect_uri |-> Null, code_verifier |-> Null]

\* No token request was sent.
NoRequest == RequestBody(Null, Null, Null, Null)

\* The headers of a token request, by their names; no header where no request was sent.
NoHeaders == [name \in {} |-> ""]
Header(name, value) == [n \in {name} |-> value]

NoCall == <<"none">>
ReportCall(message, errorCode) == <<"_reportOAuthError", message, errorCode>>
TokenCall(info) == <<"_handleTokenInfo", info>>
ExchangeCall(authCode) == <<"exchangeCode", authCode>>

Handled(op, input, call) == [op |-> op, input |-> input, call |-> call]

\* A tab event as `last' keeps it: the tab, whether its URL was taken for the
\* redirect, and then the URL and the parameters read from it.
TabEvent(tabId, redirect, params) ==
  [tabId |-> tabId, redirect |-> redirect, params |-> params, url |-> Undefined]

\* get state() that does not look at the stored value.
state_NotStored(rnd) == IF Truthy(settings.state) THEN settings.state ELSE rnd

\* get state(): the stored value, else the configured one, else a random string.
state(rnd) ==
  IF Truthy(_stateValue) THEN _stateValue
  ELSE IF Truthy(settings.state) THEN settings.state ELSE rnd

\* The page before listen() and initialize(): the constructor of
\* ApiConsoleAppProxy, and nothing posted or sent.
PageLoaded ==
  /\ _hasExtension = FALSE
  /\ appListening = FALSE
  /\ contentListening = FALSE
  /\ windowMessages = <<>>
  /\ runtimeRequests = <<>>
  /\ authorizing = {}
  /\ runtimeResponses = <<>>
  /\ results = <<>>
  /\ oauthEvents = <<>>
  /\ readyEvents = 0
  /\ calls = [listen |-> 0, informInstalled |-> 0, requested |-> 0]

\* Bound of the relay: the api-request events of the page.
MaxApiRequests == 2

\* The constructor of ApiConsoleAppProxy, and nothing requested, posted or sent.
HttpLoaded ==
  /\ _activeRequests = <<>>
  /\ serializing = {}
  /\ requestMessages = <<>>
  /\ fetchMessages = <<>>
  /\ fetching = {}
  /\ fetchResults = <<>>
  /\ responseMessages = <<>>
  /\ apiResponses = [id \in 1..MaxApiRequests |-> <<>>]
  /\ aborted = {}
  /\ sendResponses = <<>>
  /\ apiRequested = 0

\* The instance after its constructor.
Constructed ==
  /\ _stateValue = Null
  /\ _codeVerifierValue = Null
  /\ _popupTabInfo = NoTab
  /\ _resolveFunction = FALSE
  /\ _rejectFunction = FALSE
  /\ _handlingPopupResponse = FALSE
  /\ _tokenResponse = Undefined
  /\ tabHandlers = FALSE
  /\ pc = "constructed"
  /\ tab = "none"
  /\ pendingFetches = 0
  /\ fetchesSent = 0
  /\ unhandled = Undefined
  /\ outcome = Pending
  /\ deliveries = 0
  /\ matched = 0
  /\ requestBody = NoRequest
  /\ requestHeaders = NoHeaders
  /\ dateNow = 0
  /\ last = Handled("constructor", Null, NoCall)

Init ==
  /\ settings \in Configs
  /\ Constructed
  /\ PageLoaded
  /\ HttpLoaded

(***************************************************************************)
(* The error taxonomy and the token info.                                  *)
(***************************************************************************)
\* _createErrorParams(code, description) that overlooks the description.
_createErrorParams_NoDescription(errorCode, description) ==
  LET message ==
        CASE errorCode = "invalid_client" -> "Client authentication failed."
          [] errorCode \in {"interaction_required", "invalid_request", "invalid_grant",
                            "unauthorized_client", "unsupported_grant_type", "invalid_scope"} ->
               "The request cannot be processed."
          [] OTHER -> "Unknown error"
  IN ReportCall(message, errorCode)

\* _createErrorParams(code, description): the arguments of _reportOAuthError.
_createErrorParams(errorCode, description) ==
  LET message ==
        IF Truthy(description) THEN description
        ELSE CASE errorCode = "interaction_required" -> "The request requires user interaction."
               [] errorCode = "invalid_request" -> "The request is missing a required parameter."
               [] errorCode = "invalid_client" -> "Client authentication failed."
               [] errorCode = "invalid_grant" -> "The provided authorization grant or refresh token is invalid, expired, revoked, does not match the redirection URI used in the authorization request, or was issued to another client."
               [] errorCode = "unauthorized_client" -> "The authenticated client is not authorized to use this authorization grant type."
               [] errorCode = "unsupported_grant_type" -> "The authorization grant type is not supported by the authorization server."
               [] errorCode = "invalid_scope" -> "The requested scope is invalid, unknown, malformed, or exceeds the scope granted by the resource owner."
               [] OTHER -> "Unknown error"
  IN ReportCall(message, errorCode)

\* _createTokenResponseError(oauthParams)
_createTokenResponseError(oauthParams) ==
  _createErrorParams(oauthParams["error"], oauthParams["error_description"])

\* Number(value): a number, or NaN.  Number(undefined) is NaN, Number("") is 0.
NaN == [isNaN |-> TRUE, value |-> 0]
Num(n) == [isNaN |-> FALSE, value |-> n]
Number(value) ==
  CASE value = Null -> NaN
    [] value = "" -> Num(0)
    [] value = "0" -> Num(0)
    [] value = "3600" -> Num(3600)
    [] value = "7200" -> Num(7200)
    [] OTHER -> NaN

\* chars.split(' '), the strings between the spaces; `word' is the string read so far.
RECURSIVE SplitFrom(_, _)
SplitFrom(chars, word) ==
  IF chars = <<>> THEN <<word>>
  ELSE IF Head(chars) = " " THEN <<word>> \o SplitFrom(Tail(chars), "")
  ELSE SplitFrom(Tail(chars), word \o Head(chars))

Split(chars) == SplitFrom(chars, "")

\* _computeExpires(tokenInfo) that takes expiresIn for milliseconds.
_computeExpires_Milliseconds(tokenInfo, now) ==
  LET assumed == tokenInfo.expiresIn.isNaN \/ tokenInfo.expiresIn.value = 0
      expiresIn == IF assumed THEN 3600 ELSE tokenInfo.expiresIn.value
  IN [tokenInfo EXCEPT !.expiresIn = expiresIn,
                       !.expiresAssumed = IF assumed THEN TRUE ELSE @,
                       !.expiresAt = now + expiresIn]

\* _computeExpires(tokenInfo); now is the value of Date.now().
_computeExpires(tokenInfo, now) ==
  LET assumed == tokenInfo.expiresIn.isNaN \/ tokenInfo.expiresIn.value = 0
      expiresIn == IF assumed THEN 3600 ELSE tokenInfo.expiresIn.value
  IN [tokenInfo EXCEPT !.expiresIn = expiresIn,
                       !.expiresAssumed = IF assumed THEN TRUE ELSE @,
                       !.expiresAt = now + (expiresIn * 1000)]

\* _computeTokenInfoScopes(scope) that prefers the requested scopes.
_computeTokenInfoScopes_RequestedFirst(scope) ==
  IF settings.scopes.present THEN settings.scopes.list
  ELSE IF scope.present /\ scope.chars # <<>> THEN Split(scope.chars)
  ELSE <<>>

\* _computeTokenInfoScopes(scope)
_computeTokenInfoScopes(scope) ==
  LET received == scope.present /\ scope.chars # <<>> IN
  IF ~received /\ settings.scopes.present THEN settings.scopes.list
  ELSE IF received THEN Split(scope.chars)
  ELSE <<>>

\* _tokenInfoFromParams(oauthParams): the token info of the implicit flow.
\* URLSearchParams.get gives null for a missing parameter, and Number(null) is 0.
_tokenInfoFromParams(oauthParams, now) ==
  _computeExpires(
    [accessToken |-> oauthParams["access_token"],
     refreshToken |-> oauthParams["refresh_token"],
     tokenType |-> oauthParams["token_type"],
     expiresIn |-> IF Has(oauthParams, "expires_in")
                     THEN Number(oauthParams["expires_in"]) ELSE Num(0),
     state |-> oauthParams["state"],
     scope |-> _computeTokenInfoScopes(oauthParams["scope"]),
     expiresAt |-> 0,
     expiresAssumed |-> FALSE], now)

\* _authDataFromUrl(url) that looks at the fragment first.
_authDataFromUrl_FragmentFirst(url) ==
  IF url.hash # EmptyParams THEN url.hash ELSE url.search

\* _authDataFromUrl(url): the query string when it is not empty, else the fragment.
_authDataFromUrl(url) ==
  IF url.search # EmptyParams THEN url.search ELSE url.hash

\* _validateTokenResponse(params)
_validateTokenResponse(oauthParams) ==
  \E name \in {"state", "error", "access_token", "code"} : Has(oauthParams, name)

\* processTokenResponse(oauthParams) without the comparison of the two states.
processTokenResponse_NoStateCheck(oauthParams, thisState, now) ==
  LET payloadState == oauthParams["state"] IN
  IF ~Truthy(payloadState)
    THEN ReportCall("Server did not return the state parameter.", "no_state")
  ELSE IF Has(oauthParams, "error")
    THEN _createTokenResponseError(oauthParams)
  ELSE IF settings.grantType = "implicit" \/ settings.responseType = "id_token"
    THEN TokenCall(_tokenInfoFromParams(oauthParams, now))
  ELSE IF settings.grantType = "authorization_code"
    THEN IF ~Truthy(oauthParams["code"])
           THEN ReportCall("The authorization server did not returned the authorization code.", "no_code")
           ELSE ExchangeCall(oauthParams["code"])
  ELSE ReportCall("The authorization process has an invalid state. This should never happen.", "unknown_state")

\* processTokenResponse(oauthParams) with the test of `error' moved to the front.
processTokenResponse_ErrorFirst(oauthParams, thisState, now) ==
  LET payloadState == oauthParams["state"] IN
  IF Has(oauthParams, "error")
    THEN _createTokenResponseError(oauthParams)
  ELSE IF ~Truthy(payloadState)
    THEN ReportCall("Server did not return the state parameter.", "no_state")
  ELSE IF payloadState # thisState
    THEN ReportCall("The state value returned by the authorization server is invalid.", "invalid_state")
  ELSE IF settings.grantType = "implicit" \/ settings.responseType = "id_token"
    THEN TokenCall(_tokenInfoFromParams(oauthParams, now))
  ELSE IF settings.grantType = "authorization_code"
    THEN IF ~Truthy(oauthParams["code"])
           THEN ReportCall("The authorization server did not returned the authorization code.", "no_code")
           ELSE ExchangeCall(oauthParams["code"])
  ELSE ReportCall("The authorization process has an invalid state. This should never happen.", "unknown_state")

\* processTokenResponse(oauthParams) without the test of the code.
processTokenResponse_NoCodeCheck(oauthParams, thisState, now) ==
  LET payloadState == oauthParams["state"] IN
  IF ~Truthy(payloadState)
    THEN ReportCall("Server did not return the state parameter.", "no_state")
  ELSE IF payloadState # thisState
    THEN ReportCall("The state value returned by the authorization server is invalid.", "invalid_state")
  ELSE IF Has(oauthParams, "error")
    THEN _createTokenResponseError(oauthParams)
  ELSE IF settings.grantType = "implicit" \/ settings.responseType = "id_token"
    THEN TokenCall(_tokenInfoFromParams(oauthParams, now))
  ELSE IF settings.grantType = "authorization_code"
    THEN ExchangeCall(oauthParams["code"])
  ELSE ReportCall("The authorization process has an invalid state. This should never happen.", "unknown_state")

\* processTokenResponse(oauthParams), up to the call it ends with; thisState is
\* the value of the state getter, now the value of Date.now().
processTokenResponse(oauthParams, thisState, now) ==
  LET payloadState == oauthParams["state"] IN
  IF ~Truthy(payloadState)
    THEN ReportCall("Server did not return the state parameter.", "no_state")
  ELSE IF payloadState # thisState
    THEN ReportCall("The state value returned by the authorization server is invalid.", "invalid_state")
  ELSE IF Has(oauthParams, "error")
    THEN _createTokenResponseError(oauthParams)
  ELSE IF settings.grantType = "implicit" \/ settings.responseType = "id_token"
    THEN TokenCall(_tokenInfoFromParams(oauthParams, now))
  ELSE IF settings.grantType = "authorization_code"
    THEN IF ~Truthy(oauthParams["code"])
           THEN ReportCall("The authorization server did not returned the authorization code.", "no_code")
           ELSE ExchangeCall(oauthParams["code"])
  ELSE ReportCall("The authorization process has an invalid state. This should never happen.", "unknown_state")

\* _processPopupResponseUrl(url), up to the call it ends with.
_processPopupResponseUrl(url, thisState, now) ==
  LET raw == _authDataFromUrl(url) IN
  IF raw = EmptyParams
    THEN ReportCall("Invalid response from the authentication server. The redirect parameters are invalid.", "popup_error")
  ELSE IF _validateTokenResponse(raw)
    THEN processTokenResponse(raw, thisState, now)
  ELSE NoCall

(***************************************************************************)
(* The token endpoint.                                                     *)
(***************************************************************************)
Body(error, description, token, st) ==
  [error |-> error, error_description |-> description, access_token |-> token,
   state |-> st, expires_in |-> Null, scope |-> NoScope,
   token_type |-> Null, refresh_token |-> Null]

\* A response without content.
EmptyBody == [length |-> 0]

\* A response whose content cannot be read: response.text() rejects.
UnreadBody == [length |-> -1]

\* A response announced as JSON whose content is not JSON.
MalformedBody == [length |-> 1]

Bodies ==
  { Body(e, d, t, s) :
      e \in {Null, "", "invalid_client", "server_down"}, d \in {Null, "described"},
      t \in {Null, "", "tok"}, s \in {Null, "abc", "xyz"} }

\* A token with its lifetime, its scope, its type and a refresh token.
GrantedBodies ==
  { [Body(Null, Null, "tok", Null) EXCEPT !.expires_in = e] : e \in ExpiresValues }
  \cup
  { [Body(Null, Null, "tok", Null) EXCEPT !.scope = sc] : sc \in ServerScopes }
  \cup
  { [Body(Null, Null, "tok", Null) EXCEPT !.token_type = tt, !.refresh_token = rt] :
      tt \in TokenTypes, rt \in {Null, "r3fresh"} }

SampleBody == Body(Null, Null, "tok", Null)
ErrorBody == Body("invalid_client", "described", Null, Null)

Responses ==
  [status : {200}, body : Bodies \cup GrantedBodies \cup {EmptyBody, UnreadBody, MalformedBody}]
  \cup [status : {400, 404, 499, 500, 503}, body : {EmptyBody, SampleBody, ErrorBody}]

\* The responses to a token request that ends after the promise was settled:
\* a token, an error of the server, a failure of the server.
LateResponses ==
  [status : {200}, body : {SampleBody, ErrorBody}] \cup [status : {500}, body : {EmptyBody}]

\* fetch() rejected: there is no response.
NoResponse == [status |-> 0, body |-> EmptyBody]

\* What fetch() rejects with.
TransportErrors == {"Failed to fetch", ""}

\* response.text(), with the fallback of requestTokenInfo when it rejects.
Field(name, value) == IF value = Null THEN "" ELSE name \o "=" \o value \o ";"

BodyText(body) ==
  IF body = EmptyBody THEN ""
  ELSE IF body = UnreadBody THEN "No response has been recorded"
  ELSE IF body = MalformedBody THEN "<html>"
  ELSE "{" \o Field("error", body["error"])
           \o Field("error_description", body["error_description"])
           \o Field("access_token", body["access_token"])
           \o Field("state", body["state"])
           \o Field("expires_in", body["expires_in"])
           \o Field("token_type", body["token_type"])
           \o Field("refresh_token", body["refresh_token"]) \o "}"

Thrown(e) == [threw |-> TRUE, error |-> e]
Returned(value) == [threw |-> FALSE, value |-> value]

\* new CodeError(message, code); the message of an Error built from undefined is "".
CodeError(message, errorCode) ==
  [kind |-> "CodeError", message |-> IF message = Null THEN "" ELSE message, code |-> errorCode]

\* processCodeResponse(body, mime): the keys in their camel form.  The fallback
\* text of a response that cannot be read has none of the keys.
processCodeResponse(body) ==
  LET fields == IF body = UnreadBody THEN Body(Null, Null, Null, Null) ELSE body IN
  [error |-> fields["error"], errorDescription |-> fields["error_description"],
   accessToken |-> fields["access_token"], state |-> fields["state"],
   expiresIn |-> fields["expires_in"], scope |-> fields["scope"],
   tokenType |-> fields["token_type"], refreshToken |-> fields["refresh_token"]]

\* requestTokenInfo(url, body, optHeaders) that reads the body before the status.
requestTokenInfo_BodyFirst(response) ==
  IF BodyText(response.body) = ""
    THEN Thrown(PlainError("Code response body is empty."))
  ELSE IF response.status = 404
    THEN Thrown(PlainError("Authorization URI is invalid. Received status 404."))
  ELSE IF response.status >= 500
    THEN Thrown(PlainError("Authorization server error. Response code is: " \o ToString(response.status)))
  ELSE IF response.status >= 400 /\ response.status < 500
    THEN Thrown(PlainError("Client error: " \o BodyText(response.body)))
  ELSE IF response.body = MalformedBody
    THEN Thrown(PlainError("Unexpected token < in JSON at position 0"))
  ELSE Returned(processCodeResponse(response.body))

\* requestTokenInfo(url, body, optHeaders), from the response of fetch on.
requestTokenInfo(response) ==
  IF response.status = 404
    THEN Thrown(PlainError("Authorization URI is invalid. Received status 404."))
  ELSE IF response.status >= 500
    THEN Thrown(PlainError("Authorization server error. Response code is: " \o ToString(response.status)))
  ELSE IF BodyText(response.body) = ""
    THEN Thrown(PlainError("Code response body is empty."))
  ELSE IF response.status >= 400 /\ response.status < 500
    THEN Thrown(PlainError("Client error: " \o BodyText(response.body)))
  ELSE IF response.body = MalformedBody
    THEN Thrown(PlainError("Unexpected token < in JSON at position 0"))
  ELSE Returned(processCodeResponse(response.body))

\* mapCodeResponse(info) without the test of info.error.
mapCodeResponse_NoErrorCheck(info, now) ==
  Returned(_computeExpires(
    [accessToken |-> info.accessToken,
     refreshToken |-> info.refreshToken,
     tokenType |-> info.tokenType,
     expiresIn |-> Number(info.expiresIn),
     state |-> info.state,
     scope |-> _computeTokenInfoScopes(info.scope),
     expiresAt |-> 0,
     expiresAssumed |-> FALSE], now))

\* mapCodeResponse(info); now is the value of Date.now().
mapCodeResponse(info, now) ==
  IF Truthy(info.error)
    THEN Thrown(CodeError(info.errorDescription, info.error))
    ELSE Returned(_computeExpires(
           [accessToken |-> info.accessToken,
            refreshToken |-> info.refreshToken,
            tokenType |-> info.tokenType,
            expiresIn |-> Number(info.expiresIn),
            state |-> info.state,
            scope |-> _computeTokenInfoScopes(info.scope),
            expiresAt |-> 0,
            expiresAssumed |-> FALSE], now))

\* _handleTokenCodeError(e) that reports the message of the error as it is.
_handleTokenCodeError_Unwrapped(e) ==
  IF e.kind = "CodeError"
    THEN _createErrorParams(e.code, e.message)
    ELSE ReportCall(e.message, "request_error")

\* _handleTokenCodeError(e), up to the call it ends with.
_handleTokenCodeError(e) ==
  IF e.kind = "CodeError"
    THEN _createErrorParams(e.code, e.message)
    ELSE ReportCall("Couldn't connect to the server. " \o e.message, "request_error")

\* The end of a token request with the state of the response validated as the
\* state of a redirect is.
TokenRequestDone_StateChecked(result, redirectState, now) ==
  IF result.threw THEN _handleTokenCodeError(result.error)
  ELSE IF settings.grantType # code /\ ~Truthy(result.value.state)
    THEN ReportCall("Server did not return the state parameter.", "no_state")
  ELSE IF settings.grantType # code /\ result.value.state # settings.state
    THEN ReportCall("The state value returned by the authorization server is invalid.", "invalid_state")
  ELSE LET mapped == mapCodeResponse(result.value, now) IN
       IF mapped.threw THEN _handleTokenCodeError(mapped.error)
       ELSE IF settings.grantType = code
         THEN TokenCall([mapped.value EXCEPT !.state = redirectState])
         ELSE TokenCall(mapped.value)

\* The end of a token request that leaves the state of the response in the token.
TokenRequestDone_NoStamp(result, redirectState, now) ==
  IF result.threw THEN _handleTokenCodeError(result.error)
  ELSE LET mapped == mapCodeResponse(result.value, now) IN
       IF mapped.threw THEN _handleTokenCodeError(mapped.error)
       ELSE TokenCall(mapped.value)

\* The part of a grant's function that follows `await this.requestTokenInfo(...)`
\* (for authorization_code: `await this.exchangeCode(code)` in
\* processTokenResponse, which stamps the state of the redirect).
TokenRequestDone(result, redirectState, now) ==
  IF result.threw THEN _handleTokenCodeError(result.error)
  ELSE LET mapped == mapCodeResponse(result.value, now) IN
       IF mapped.threw THEN _handleTokenCodeError(mapped.error)
       ELSE IF settings.grantType = code
         THEN TokenCall([mapped.value EXCEPT !.state = redirectState])
         ELSE TokenCall(mapped.value)

(***************************************************************************)
(* The body of the token request of each grant.                            *)
(***************************************************************************)
\* params.set(name, value) under `if (value)': the value when it is truthy.
IfSet(value) == IF Truthy(value) THEN value ELSE Null

\* params.set(name, value): the string of the value.
String(value) == IF value = Null THEN "undefined" ELSE value

\* getCodeRequestBody(code) without the code verifier.
getCodeRequestBody_NoVerifier(authCode) ==
  [RequestBody("authorization_code", authCode, String(settings.clientId),
               IF Truthy(settings.clientSecret) THEN settings.clientSecret ELSE "")
     EXCEPT !.redirect_uri = IfSet(settings.redirectUri)]

getCodeRequestBody(authCode) ==
  [RequestBody("authorization_code", authCode, String(settings.clientId),
               IF Truthy(settings.clientSecret) THEN settings.clientSecret ELSE "")
     EXCEPT !.redirect_uri = IfSet(settings.redirectUri),
            !.code_verifier = IF settings.pkce THEN String(_codeVerifierValue) ELSE Null]

\* getClientCredentialsBody() that leaves the credentials in the body whatever
\* the delivery method.
getClientCredentialsBody_AlwaysInBody ==
  RequestBody("client_credentials", Null,
              IfSet(settings.clientId), IfSet(settings.clientSecret))

getClientCredentialsBody ==
  LET headerTransport == settings.deliveryMethod = "header" IN
  RequestBody("client_credentials", Null,
              IF ~headerTransport THEN IfSet(settings.clientId) ELSE Null,
              IF ~headerTransport THEN IfSet(settings.clientSecret) ELSE Null)

\* btoa(text) for the texts `clientId:clientSecret' of the configurations.
btoa(text) ==
  CASE text = ":" -> "Og=="
    [] text = "id:" -> "aWQ6"
    [] text = ":s3cret" -> "OnMzY3JldA=="
    [] text = "id:s3cret" -> "aWQ6czNjcmV0"
    [] text = "id:other" -> "aWQ6b3RoZXI="
    [] text = ":other" -> "Om90aGVy"

\* getClientCredentialsHeader(settings): an undefined credential is the empty string.
getClientCredentialsHeader ==
  LET clientId == IF settings.clientId = Null THEN "" ELSE settings.clientId
      clientSecret == IF settings.clientSecret = Null THEN "" ELSE settings.clientSecret
  IN "Basic " \o btoa(clientId \o ":" \o clientSecret)

\* The headers _authorizeClientCredentials() hands to requestTokenInfo.
ClientCredentialsHeaders ==
  LET deliveryMethod == IF settings.deliveryMethod = Null THEN "body" ELSE settings.deliveryMethod
      deliveryName == IF settings.deliveryName = Null THEN "authorization" ELSE settings.deliveryName
  IN IF deliveryMethod = "header"
       THEN Header(deliveryName, getClientCredentialsHeader)
       ELSE NoHeaders

\* The headers of the request of requestTokenInfo(url, body, optHeaders): the
\* content type, and over it the headers of the caller.
RequestHeaders(optHeaders) ==
  optHeaders @@ Header("content-type", "application/x-www-form-urlencoded")

getPasswordBody ==
  RequestBody("password", Null, IfSet(settings.clientId), IfSet(settings.clientSecret))
getDeviceCodeBody ==
  RequestBody(deviceCode, Null, IfSet(settings.clientId), IfSet(settings.clientSecret))
getJwtBody == RequestBody(jwtBearer, Null, Null, Null)

getCustomGrantBody ==
  [RequestBody(settings.grantType, Null, IfSet(settings.clientId), IfSet(settings.clientSecret))
     EXCEPT !.redirect_uri = IfSet(settings.redirectUri)]

\* The headers the function of a grant hands to requestTokenInfo.
DirectGrantHeaders ==
  IF settings.grantType = clientCredentials THEN ClientCredentialsHeaders ELSE NoHeaders

\* The body of the grants that _authorize() sends straight to the token endpoint.
DirectGrantBody ==
  CASE settings.grantType = clientCredentials -> getClientCredentialsBody
    [] settings.grantType = password -> getPasswordBody
    [] settings.grantType = deviceCode -> getDeviceCodeBody
    [] settings.grantType = jwtBearer -> getJwtBody
    [] OTHER -> getCustomGrantBody

\* new URL(url) at the head of requestTokenInfo: a TypeError for an access token
\* URI that is not a URL, caught as any failure of the request is.
InvalidTokenUrl == _handleTokenCodeError(PlainError("Invalid URL"))

(***************************************************************************)
(* The two places that settle the promise.                                 *)
(***************************************************************************)
\* _reportOAuthError(message, code) that builds the error with the state of the
\* configuration instead of the state getter.
_reportOAuthError_ConfigState(message, errorCode, rnd) ==
  IF ~_rejectFunction
    THEN UNCHANGED <<outcome, deliveries, _rejectFunction, _resolveFunction, _stateValue>>
    ELSE /\ outcome' = Settle(outcome, AuthorizationError(message, errorCode, settings.state))
         /\ deliveries' = deliveries + 1
         /\ _stateValue' = state(rnd)
         /\ _rejectFunction' = FALSE
         /\ _resolveFunction' = FALSE

\* _reportOAuthError(message, code) without its last two statements: the settle
\* functions stay in place after the error was delivered.
_reportOAuthError_NoClear(message, errorCode, rnd) ==
  IF ~_rejectFunction
    THEN UNCHANGED <<outcome, deliveries, _rejectFunction, _resolveFunction, _stateValue>>
    ELSE /\ outcome' = Settle(outcome, AuthorizationError(message, errorCode, state(rnd)))
         /\ deliveries' = deliveries + 1
         /\ _stateValue' = state(rnd)
         /\ UNCHANGED <<_rejectFunction, _resolveFunction>>

\* _reportOAuthError(message, code)
_reportOAuthError(message, errorCode, rnd) ==
  IF ~_rejectFunction
    THEN UNCHANGED <<outcome, deliveries, _rejectFunction, _resolveFunction, _stateValue>>
    ELSE /\ outcome' = Settle(outcome, AuthorizationError(message, errorCode, state(rnd)))
         /\ deliveries' = deliveries + 1
         /\ _stateValue' = state(rnd)
         /\ _rejectFunction' = FALSE
         /\ _resolveFunction' = FALSE

\* _handleTokenInfo(info)
_handleTokenInfo(info) ==
  /\ _tokenResponse' = info
  /\ IF _resolveFunction
       THEN outcome' = Settle(outcome, Fulfilled(info)) /\ deliveries' = deliveries + 1
       ELSE UNCHANGED <<outcome, deliveries>>
  /\ _rejectFunction' = FALSE
  /\ _resolveFunction' = FALSE

\* The call a handler ends with, carried out.
\* `ended' is the number of token requests whose completion the handler is, now
\* the value of Date.now().  exchangeCode(code) sends the token request, unless
\* the access token URI is not a URL.
Perform(call, rnd, ended, now) ==
  CASE call[1] = "_reportOAuthError" ->
         /\ _reportOAuthError(call[2], call[3], rnd)
         /\ pendingFetches' = pendingFetches - ended
         /\ UNCHANGED <<_tokenResponse, fetchesSent, requestBody, requestHeaders, dateNow>>
    [] call[1] = "_handleTokenInfo" ->
         /\ _handleTokenInfo(call[2])
         /\ pendingFetches' = pendingFetches - ended
         /\ dateNow' = now
         /\ UNCHANGED <<_stateValue, fetchesSent, requestBody, requestHeaders>>
    [] call[1] = "exchangeCode" /\ IsValidUrl(settings.accessTokenUri) ->
         /\ pendingFetches' = pendingFetches - ended + 1
         /\ fetchesSent' = fetchesSent + 1
         /\ requestBody' = getCodeRequestBody(call[2])
         /\ requestHeaders' = RequestHeaders(NoHeaders)
         /\ UNCHANGED <<outcome, deliveries, _rejectFunction, _resolveFunction,
                        _stateValue, _tokenResponse, dateNow>>
    [] call[1] = "exchangeCode" /\ ~IsValidUrl(settings.accessTokenUri) ->
         /\ _reportOAuthError(InvalidTokenUrl[2], InvalidTokenUrl[3], rnd)
         /\ pendingFetches' = pendingFetches - ended
         /\ UNCHANGED <<_tokenResponse, fetchesSent, requestBody, requestHeaders, dateNow>>
    [] OTHER ->
         /\ pendingFetches' = pendingFetches - ended
         /\ UNCHANGED <<outcome, deliveries, _rejectFunction, _resolveFunction,
                        _stateValue, _tokenResponse, fetchesSent, requestBody, requestHeaders, dateNow>>

(***************************************************************************)
(* authorize(), _authorize() and the function of the grant up to its first *)
(* wait: chrome.tabs.create for implicit and authorization_code, fetch for *)
(* the other grants.  A failure to build the authorization URL rejects the *)
(* promise with the error as thrown.                                       *)
(***************************************************************************)
\* list.join(' ')
RECURSIVE Join(_)
Join(list) ==
  IF list = <<>> THEN ""
  ELSE IF Len(list) = 1 THEN list[1]
  ELSE list[1] \o " " \o Join(Tail(list))

\* url.searchParams.set(name, value) under a condition: the parameter, or none.
SetParam(condition, name, value) == [n \in (IF condition THEN {name} ELSE {}) |-> value]

\* The values randomString() gives for the code verifier.
CodeVerifiers == {"v3rifier", "0ther"}

\* String(type).includes('code'), for the response types of the configurations.
IncludesCode(type) == type \in {"code"}

\* generateCodeChallenge(verifier): the SHA-256 digest of the verifier in
\* URL-safe base64, a value that is the same for the same verifier only.
generateCodeChallenge(verifier) == "S256(" \o verifier \o ")"

\* buildPopupUrlParams() with the statement that sets client_secret put back.
buildPopupUrlParams_WithSecret(config, type, thisState, verifier) ==
  SetParam(TRUE, "response_type", type)
  @@ SetParam(TRUE, "client_id", String(config.clientId))
  @@ SetParam(Truthy(config.clientSecret), "client_secret", config.clientSecret)
  @@ SetParam(TRUE, "state", thisState)
  @@ SetParam(Truthy(config.redirectUri), "redirect_uri", config.redirectUri)
  @@ SetParam(config.scopes.present /\ config.scopes.list # <<>>, "scope", Join(config.scopes.list))
  @@ SetParam(config.pkce /\ IncludesCode(type), "code_challenge", generateCodeChallenge(verifier))
  @@ SetParam(config.pkce /\ IncludesCode(type), "code_challenge_method", "S256")

\* buildPopupUrlParams(): the query parameters of the authorization URL, for the
\* settings `config', the response type `type', the value of the state getter and
\* the string randomString() gives for the code verifier.
\* The settings of the model have no includeGrantedScopes, loginHint or customData.
buildPopupUrlParams(config, type, thisState, verifier) ==
  SetParam(TRUE, "response_type", type)
  @@ SetParam(TRUE, "client_id", String(config.clientId))
  @@ SetParam(TRUE, "state", thisState)
  @@ SetParam(Truthy(config.redirectUri), "redirect_uri", config.redirectUri)
  @@ SetParam(config.scopes.present /\ config.scopes.list # <<>>, "scope", Join(config.scopes.list))
  @@ SetParam(config.pkce /\ IncludesCode(type), "code_challenge", generateCodeChallenge(verifier))
  @@ SetParam(config.pkce /\ IncludesCode(type), "code_challenge_method", "S256")

\* constructPopupUrl(): the authorization URI with the query parameters.
constructPopupUrl(config, type, thisState, verifier) ==
  [base |-> config.authorizationUri,
   searchParams |-> buildPopupUrlParams(config, type, thisState, verifier)]

_authorizeImplicitCode(rnd) ==
  LET type == IF Truthy(settings.responseType) THEN settings.responseType
              ELSE grantResponseMapping(settings.grantType)
      failure == IF type = Null THEN PlainError("Unable to construct the authorization URL.")
                 ELSE IF ~IsValidUrl(settings.authorizationUri) THEN PlainError("Invalid URL")
                 ELSE Undefined
  IN IF failure # Undefined
       THEN /\ outcome' = Settle(outcome, failure)
            /\ deliveries' = deliveries + 1
            /\ _rejectFunction' = FALSE
            /\ _resolveFunction' = FALSE
            /\ pc' = "running"
            /\ last' = Handled("authorize", Null, <<"_rejectFunction", failure>>)
            /\ UNCHANGED <<_stateValue, _codeVerifierValue>>
       ELSE /\ _stateValue' = state(rnd)
            /\ _rejectFunction' = TRUE
            /\ _resolveFunction' = TRUE
            /\ pc' = "creatingTab"
            /\ \E verifier \in CodeVerifiers :
                 /\ _codeVerifierValue' = IF settings.pkce /\ IncludesCode(type)
                                            THEN verifier ELSE _codeVerifierValue
                 /\ last' = Handled("authorize", Null,
                                    <<"chrome.tabs.create",
                                      constructPopupUrl(settings, type, state(rnd), verifier)>>)
            /\ UNCHANGED <<outcome, deliveries>>

\* The function of a grant that needs no tab, up to `await fetch(...)': the
\* token request is sent, unless the access token URI is not a URL; then the
\* promise is rejected before any event.
_authorizeDirect(rnd) ==
  IF IsValidUrl(settings.accessTokenUri)
    THEN /\ _rejectFunction' = TRUE
         /\ _resolveFunction' = TRUE
         /\ pendingFetches' = pendingFetches + 1
         /\ fetchesSent' = fetchesSent + 1
         /\ requestBody' = DirectGrantBody
         /\ requestHeaders' = RequestHeaders(DirectGrantHeaders)
         /\ last' = Handled("authorize", Null, <<"requestTokenInfo">>)
         /\ UNCHANGED <<outcome, deliveries, _stateValue>>
    ELSE /\ outcome' = Settle(outcome, AuthorizationError(InvalidTokenUrl[2], InvalidTokenUrl[3], state(rnd)))
         /\ deliveries' = deliveries + 1
         /\ _stateValue' = state(rnd)
         /\ _rejectFunction' = FALSE
         /\ _resolveFunction' = FALSE
         /\ last' = Handled("authorize", Null, InvalidTokenUrl)
         /\ UNCHANGED <<pendingFetches, fetchesSent, requestBody, requestHeaders>>

\* _authorize() with every grant sent to the popup.
_authorize_AlwaysPopup(rnd) ==
  /\ _authorizeImplicitCode(rnd)
  /\ UNCHANGED <<pendingFetches, fetchesSent, requestBody, requestHeaders>>

\* _authorize(): the switch on the grant type.
_authorize(rnd) ==
  IF settings.grantType \in {implicit, code}
    THEN /\ _authorizeImplicitCode(rnd)
         /\ UNCHANGED <<pendingFetches, fetchesSent, requestBody, requestHeaders>>
    ELSE /\ _authorizeDirect(rnd)
         /\ pc' = "running"
         /\ UNCHANGED _codeVerifierValue

Authorize ==
  /\ pc = "constructed"
  /\ \E rnd \in RandomStrings : _authorize(rnd)
  /\ UNCHANGED <<page, http, settings, _popupTabInfo, _handlingPopupResponse, _tokenResponse,
                 tabHandlers, tab, unhandled, matched, dateNow>>

(***************************************************************************)
(* _authorizePopup(url) after `await chrome.tabs.create(...)'.  Nobody     *)
(* awaits the promise of _authorizePopup: what it throws is an unhandled   *)
(* rejection.                                                              *)
(***************************************************************************)
TabCreated ==
  /\ pc = "creatingTab"
  /\ _popupTabInfo' = OwnTab
  /\ tabHandlers' = TRUE
  /\ tab' = (IF tab = "closed" THEN "closed" ELSE "open")
  /\ pc' = "running"
  /\ last' = Handled("_authorizePopup", OwnTab, <<"_addTabHandlers">>)
  /\ UNCHANGED <<page, http, settings, _codeVerifierValue, _stateValue, _resolveFunction, _rejectFunction,
                 _handlingPopupResponse, _tokenResponse, pendingFetches, fetchesSent,
                 unhandled, outcome, deliveries, matched, requestBody, requestHeaders, dateNow>>

TabCreateFailed ==
  /\ pc = "creatingTab"
  /\ \E message \in (IF tab = "none" THEN {"Tabs cannot be created right now."} ELSE {})
                     \cup {"Unable to process authorization. Created an invalid tab."},
        rnd \in RandomStrings :
       /\ unhandled' = AuthorizationError(message, "popup_blocked", state(rnd))
       /\ _stateValue' = state(rnd)
       /\ last' = Handled("_authorizePopup", Null, <<"throw", message>>)
  /\ pc' = "running"
  /\ UNCHANGED <<page, http, settings, _codeVerifierValue, _popupTabInfo, _resolveFunction, _rejectFunction,
                 _handlingPopupResponse, _tokenResponse, tabHandlers, tab,
                 pendingFetches, fetchesSent, outcome, deliveries, matched,
                 requestBody, requestHeaders, dateNow>>

\* The URL of the redirect that grants what was asked for.
GrantingUrl(st) ==
  [base |-> RedirectUri, search |-> Params(st, Null, Null, "tok", "c0de", Null), hash |-> EmptyParams]

\* The browser has made the tab and the promise of chrome.tabs.create() is not
\* resolved yet: _addTabHandlers() has not run, and an event of the tab, its
\* navigation to the redirect URI or its removal, finds no listener of the instance.
TabEventBeforeHandlers ==
  /\ pc = "creatingTab"
  /\ tab \in {"none", "open"}
  /\ \/ /\ tab = "none"
        /\ tab' = "open"
        /\ last' = Handled("chrome.tabs.onUpdated",
                           [TabEvent(OwnTab, FALSE, EmptyParams) EXCEPT !.url = GrantingUrl(_stateValue)],
                           NoCall)
     \/ /\ tab' = "closed"
        /\ last' = Handled("chrome.tabs.onRemoved", OwnTab, NoCall)
  /\ UNCHANGED <<page, http, settings, _codeVerifierValue, _stateValue, _popupTabInfo, _resolveFunction, _rejectFunction,
                 _handlingPopupResponse, _tokenResponse, tabHandlers, pc,
                 pendingFetches, fetchesSent, unhandled, outcome, deliveries, matched,
                 requestBody, requestHeaders, dateNow>>

(***************************************************************************)
(* The tab listeners.  The browser sends no event for a tab that is gone.  *)
(***************************************************************************)
\* The test `_popupTabInfo.id !== tabId' that takes every tab for the popup.
NotOurPopup_Never(tabId) == FALSE

\* `_popupTabInfo.id !== tabId': the event is not about the tab of this instance.
NotOurPopup(tabId) == _popupTabInfo # tabId

\* chrome.tabs.onUpdated: _tabUpdatedHandler(tabId, changeInfo)
_tabUpdatedHandler(tabId, url) ==
  /\ tabHandlers
  /\ IF _popupTabInfo = NoTab
       THEN \E rnd \in RandomStrings :
            LET call == ReportCall("Invalid state. Received a tab event but did not expect it.", "popup_error") IN
            /\ Perform(call, rnd, 0, 0)
            /\ tabHandlers' = FALSE
            /\ last' = Handled("_tabUpdatedHandler", TabEvent(tabId, FALSE, EmptyParams), call)
            /\ UNCHANGED <<_handlingPopupResponse, tab, matched>>
     ELSE IF NotOurPopup(tabId) \/ url = Undefined \/ ~UrlIncludes(url, settings.redirectUri)
       THEN /\ last' = Handled("_tabUpdatedHandler", TabEvent(tabId, FALSE, EmptyParams), NoCall)
            /\ UNCHANGED <<_handlingPopupResponse, tab, matched, tabHandlers,
                           outcome, deliveries, _rejectFunction, _resolveFunction,
                           _stateValue, _tokenResponse, pendingFetches, fetchesSent,
                           requestBody, requestHeaders, dateNow>>
     ELSE /\ matched < MaxMatched
          /\ _handlingPopupResponse' = TRUE
          /\ tab' = "removing"
          /\ matched' = matched + 1
          /\ \E rnd \in RandomStrings, now \in Times :
             LET call == _processPopupResponseUrl(url, state(rnd), now) IN
             /\ Perform(call, rnd, 0, now)
             /\ last' = Handled("_tabUpdatedHandler",
                                [TabEvent(tabId, TRUE, _authDataFromUrl(url)) EXCEPT !.url = url],
                                call)
          /\ UNCHANGED tabHandlers
  /\ UNCHANGED <<page, http, settings, _codeVerifierValue, _popupTabInfo, pc, unhandled>>

\* The URLs of the popup tab after a navigation to the redirect URI was handled
\* and before the tab is gone: a few of the redirects.
RepeatUrls(st) ==
  { [base |-> RedirectUri, search |-> p, hash |-> EmptyParams] :
      p \in { Params(st, Null, Null, "tok", "c0de", Null),
              Params(st, "invalid_client", Null, Null, Null, Null),
              Params("xyz", Null, Null, "tok", "c0de", Null),
              Params(st, Null, Null, Null, Null, Null),
              EmptyParams } }
  \cup OtherUrls(st)

\* The events of another tab are the same whatever their URL: two URLs stand for them.
ChangeInfoUrls(tabId) ==
  IF tabId = OwnTab
    THEN (IF matched = 0 THEN Urls(_stateValue) ELSE RepeatUrls(_stateValue)) \cup {Undefined}
  ELSE { [base |-> RedirectUri, search |-> Params(_stateValue, Null, Null, "tok", "c0de", Null), hash |-> EmptyParams],
         Undefined }

TabUpdated ==
  \E tabId \in {OwnTab, OtherTab} : \E url \in ChangeInfoUrls(tabId) :
    /\ tabId = OwnTab => tab # "closed"
    /\ _tabUpdatedHandler(tabId, url)

\* The end of _tabClosedHandler without the test of the flag.
_tabClosedReport_Always == ReportCall("No response has been recorded.", "no_response")

\* The end of _tabClosedHandler: nothing to report once a redirect was handled.
_tabClosedReport ==
  IF _handlingPopupResponse THEN NoCall
  ELSE ReportCall("No response has been recorded.", "no_response")

\* chrome.tabs.onRemoved: _tabClosedHandler(tabId)
_tabClosedHandler(tabId) ==
  /\ tabHandlers
  /\ IF _popupTabInfo = NoTab \/ NotOurPopup(tabId)
       THEN /\ last' = Handled("_tabClosedHandler", tabId, NoCall)
            /\ UNCHANGED <<tabHandlers, _popupTabInfo, tab, outcome, deliveries,
                           _rejectFunction, _resolveFunction, _stateValue,
                           _tokenResponse, pendingFetches, fetchesSent,
                           requestBody, requestHeaders, dateNow>>
       ELSE /\ tabHandlers' = FALSE
            /\ _popupTabInfo' = NoTab
            /\ tab' = "closed"
            /\ \E rnd \in RandomStrings :
               LET call == _tabClosedReport IN
               /\ Perform(call, rnd, 0, 0)
               /\ last' = Handled("_tabClosedHandler", tabId, call)
  /\ UNCHANGED <<page, http, settings, _codeVerifierValue, _handlingPopupResponse, pc, unhandled, matched>>

TabClosed ==
  \E tabId \in {OwnTab, OtherTab} :
    /\ tabId = OwnTab => tab # "closed"
    /\ _tabClosedHandler(tabId)

(***************************************************************************)
(* The end of a token request.                                             *)
(***************************************************************************)
FetchCompleted ==
  /\ pendingFetches > 0
  /\ \E response \in (IF deliveries = 0 THEN Responses ELSE LateResponses),
        rnd \in RandomStrings, now \in Times :
       LET call == TokenRequestDone(requestTokenInfo(response), _stateValue, now) IN
       /\ last' = Handled("requestTokenInfo", response, call)
       /\ Perform(call, rnd, 1, now)
  /\ UNCHANGED <<page, http, settings, _codeVerifierValue, _popupTabInfo, _handlingPopupResponse, tabHandlers, pc, tab,
                 unhandled, matched>>

\* fetch() rejects: the server cannot be reached.
FetchFailed ==
  /\ pendingFetches > 0
  /\ \E rnd \in RandomStrings, message \in TransportErrors :
       LET call == TokenRequestDone(Thrown(PlainError(message)), _stateValue, 0) IN
       /\ last' = Handled("fetch", NoResponse, call)
       /\ Perform(call, rnd, 1, 0)
  /\ UNCHANGED <<page, http, settings, _codeVerifierValue, _popupTabInfo, _handlingPopupResponse, tabHandlers, pc, tab,
                 unhandled, matched>>

\* _prepareSettings(settings) copies the fields of the configuration and
\* freezes the copy: a field of the copy cannot be assigned, and an assignment
\* to a field of the caller's object does not reach the copy.  The array of
\* the scopes is not copied: the copy and the caller's object refer to the same
\* array.  Here the caller adds a scope to the array it passed, after
\* authorize() and before the first answer of the authorization server.
CallerAddsScope ==
  /\ pc # "constructed"
  /\ outcome = Pending
  /\ matched = 0
  /\ fetchesSent = pendingFetches
  /\ settings.scopes.present
  /\ \A i \in DOMAIN settings.scopes.list : settings.scopes.list[i] # "late"
  /\ settings' = [settings EXCEPT !.scopes.list = Append(@, "late")]
  /\ last' = Handled("caller", Null, <<"config.scopes.push", "late">>)
  /\ UNCHANGED <<page, http, _stateValue, _codeVerifierValue, _popupTabInfo, _resolveFunction,
                 _rejectFunction, _handlingPopupResponse, _tokenResponse, tabHandlers, pc, tab,
                 pendingFetches, fetchesSent, unhandled, outcome, deliveries, matched,
                 requestBody, requestHeaders, dateNow>>

Next ==
  \/ Authorize
  \/ CallerAddsScope
  \/ TabCreated
  \/ TabCreateFailed
  \/ TabEventBeforeHandlers
  \/ TabUpdated
  \/ TabClosed
  \/ FetchCompleted
  \/ FetchFailed

Spec == Init /\ [][Next]_vars

(***************************************************************************)
(* The relay of an authorization between the page and the instance: the    *)
(* library of the page (ApiConsoleAppProxy), the content script            *)
(* (ApiConsoleProxy in page-proxy.js) and the background service           *)
(* (ApiConsoleService in service.js).  The page and the content script     *)
(* talk through window.postMessage, the content script and the service     *)
(* through chrome.runtime.sendMessage.  Here authorize() is what the       *)
(* service awaits: it settles with one of the outcomes of the instance.    *)
(***************************************************************************)
\* Bounds of the relay: the calls of listen() and the requests of the page.
MaxListens == 2
MaxRequests == 1

\* The settings the page asks a token for.
PageSettings ==
  [grantType |-> implicit, responseType |-> Null, state |-> "abc",
   authorizationUri |-> AuthUri, accessTokenUri |-> TokenUri,
   redirectUri |-> RedirectUri, scopes |-> ScopeList(<<"a", "b">>)] @@ WithoutSecret

\* What is relayed for an attempt of the page, with the number of the attempt.
Relayed(attempt, value) == [attempt |-> attempt, value |-> value]

NoData == Relayed(0, Undefined)

\* The messages on the window: the ones of the library have a payload, the
\* ones of the content script have api-console-extension and api-console-payload.
AppMessage(payload, detail) ==
  [payload |-> payload, extension |-> FALSE, extensionPayload |-> Null, data |-> detail]

ExtensionMessage(extensionPayload, data) ==
  [payload |-> Null, extension |-> TRUE, extensionPayload |-> extensionPayload, data |-> data]

\* _notifyExtension(): the message of the library to the content script.
_notifyExtension == AppMessage("api-console-extension-installed", NoData)

\* informInstalled(): the message of the content script to the library.
informInstalled == ExtensionMessage("init", NoData)

\* What authorize() settles with: a token of the implicit flow, with and without
\* its type and a refresh token; the errors of the instance; a TypeError of
\* `new URL(authorizationUri)'.
AuthorizeOutcomes ==
  { Fulfilled(_tokenInfoFromParams(p, 5000)) :
      p \in { [Params("abc", Null, Null, "tok", Null, Null)
                 EXCEPT !.token_type = "Bearer", !.refresh_token = "r3fresh"],
              [Params("abc", Null, Null, "tok", Null, Null) EXCEPT !.expires_in = "7200"] } }
  \cup
  { AuthorizationError(c[2], c[3], "abc") :
      c \in { _createErrorParams("invalid_client", Null),
              ReportCall("The state value returned by the authorization server is invalid.", "invalid_state"),
              _tabClosedReport } }
  \cup
  { PlainError("Invalid URL") }

\* handleOAuth2(data), from the settlement of authorize() on: the argument of
\* sendResponse.
handleOAuth2(result) ==
  IF result.kind = "TokenInfo"
    THEN result.info
    ELSE [message |-> IF Truthy(result.message) THEN result.message ELSE "The request is invalid.",
          code |-> "invalid_request",
          error |-> TRUE]

\* An event dispatched on the page for an attempt.
OAuthEvent(type, detail) == [type |-> type, detail |-> detail]

\* _oauthTokenReady(data): the event dispatched.  expiresIn is a number other
\* than zero in every token info (_computeExpires), and Number() leaves it.
_oauthTokenReady(data) ==
  IF data = Undefined
    THEN OAuthEvent("oauth2-error",
                    [message |-> "No response has been recorded.", code |-> "no_response"])
  ELSE IF "error" \in DOMAIN data /\ data.error = TRUE
    THEN OAuthEvent("oauth2-error", [message |-> data.message, code |-> data.code])
  ELSE OAuthEvent("oauth2-token-response",
                  [state |-> data.state,
                   accessToken |-> IfSet(data.accessToken),
                   tokenType |-> IfSet(data.tokenType),
                   expiresIn |-> data.expiresIn,
                   scope |-> data.scope])

\* ApiConsoleAppProxy.listen(): the listeners, then the message to the extension.
listen ==
  /\ calls.listen < MaxListens
  /\ appListening' = TRUE
  /\ windowMessages' = Append(windowMessages, _notifyExtension)
  /\ calls' = [calls EXCEPT !.listen = @ + 1]
  /\ UNCHANGED <<orchestrator, http, _hasExtension, contentListening, runtimeRequests,
                 authorizing, runtimeResponses, results, oauthEvents, readyEvents>>

\* ApiConsoleAppProxy.unlisten()
unlisten ==
  /\ appListening
  /\ appListening' = FALSE
  /\ UNCHANGED <<orchestrator, http, _hasExtension, contentListening, windowMessages,
                 runtimeRequests, authorizing, runtimeResponses, results, oauthEvents,
                 readyEvents, calls>>

\* The content script: initialize(), run once when the script is injected.
initialize ==
  /\ ~contentListening
  /\ contentListening' = TRUE
  /\ windowMessages' = Append(windowMessages, informInstalled)
  /\ calls' = [calls EXCEPT !.informInstalled = @ + 1]
  /\ UNCHANGED <<orchestrator, http, _hasExtension, appListening, runtimeRequests,
                 authorizing, runtimeResponses, results, oauthEvents, readyEvents>>

\* The content script's _messageHandler(e) that does not answer the message of
\* the library.
ContentPosts_NoAnswer(message) == <<>>

\* The content script's _messageHandler(e): the messages it posts to the window.
ContentPosts(message) ==
  IF message.payload = "api-console-extension-installed" THEN <<informInstalled>> ELSE <<>>

\* The content script's _messageHandler(e) and _proxyOauth(data) up to its
\* await: the messages it sends to the service.
ContentSends(message) ==
  IF message.payload = "api-console-oauth2" THEN <<message.data>> ELSE <<>>

\* The dispatch of a message of the window to the listeners registered:
\* _messageHandler(e) of ApiConsoleAppProxy, with _extensionDetected() and
\* _oauthTokenReady(data), and _messageHandler(e) of the content script.
WindowMessageEvent ==
  /\ windowMessages # <<>>
  /\ LET message == Head(windowMessages)
         posted == IF contentListening THEN ContentPosts(message) ELSE <<>>
         sent == IF contentListening THEN ContentSends(message) ELSE <<>>
         app == IF appListening /\ message.extension THEN message.extensionPayload ELSE Null
     IN /\ windowMessages' = Tail(windowMessages) \o posted
        /\ runtimeRequests' = runtimeRequests \o sent
        /\ calls' = [calls EXCEPT !.informInstalled = @ + Len(posted)]
        /\ _hasExtension' = (_hasExtension \/ app = "init")
        /\ readyEvents' = readyEvents + (IF app = "init" THEN 1 ELSE 0)
        /\ oauthEvents' =
             IF app = "api-console-oauth2-token-response"
               THEN Append(oauthEvents,
                           Relayed(message.data.attempt, _oauthTokenReady(message.data.value)))
               ELSE oauthEvents
  /\ UNCHANGED <<orchestrator, http, appListening, contentListening, authorizing,
                 runtimeResponses, results>>

\* The page dispatches oauth2-token-requested: _oauthTokenHandler(e), when the
\* listener is registered.
_oauthTokenHandler ==
  /\ calls.requested < MaxRequests
  /\ calls' = [calls EXCEPT !.requested = @ + 1]
  /\ results' = Append(results, Pending)
  /\ windowMessages' =
       IF appListening /\ _hasExtension
         THEN Append(windowMessages,
                     AppMessage("api-console-oauth2", Relayed(calls.requested + 1, settings)))
         ELSE windowMessages
  /\ UNCHANGED <<orchestrator, http, _hasExtension, appListening, contentListening,
                 runtimeRequests, authorizing, runtimeResponses, oauthEvents, readyEvents>>

\* The service: handleRequest(message) and handleOAuth2(data) up to
\* `await proxy.authorize()'.
handleRequest ==
  /\ runtimeRequests # <<>>
  /\ runtimeRequests' = Tail(runtimeRequests)
  /\ authorizing' = authorizing \cup {Head(runtimeRequests).attempt}
  /\ UNCHANGED <<orchestrator, http, _hasExtension, appListening, contentListening,
                 windowMessages, runtimeResponses, results, oauthEvents, readyEvents, calls>>

\* The service: authorize() is settled, handleOAuth2(data) sends its response.
AuthorizeSettled ==
  \E attempt \in authorizing, result \in AuthorizeOutcomes :
    /\ authorizing' = authorizing \ {attempt}
    /\ results' = [results EXCEPT ![attempt] = result]
    /\ runtimeResponses' = Append(runtimeResponses, Relayed(attempt, handleOAuth2(result)))
    /\ UNCHANGED <<orchestrator, http, _hasExtension, appListening, contentListening,
                   windowMessages, runtimeRequests, oauthEvents, readyEvents, calls>>

\* The content script: _proxyOauth(data) after `await chrome.runtime.sendMessage'.
_proxyOauth ==
  /\ runtimeResponses # <<>>
  /\ runtimeResponses' = Tail(runtimeResponses)
  /\ windowMessages' = Append(windowMessages,
                              ExtensionMessage("api-console-oauth2-token-response",
                                               Head(runtimeResponses)))
  /\ UNCHANGED <<orchestrator, http, _hasExtension, appListening, contentListening,
                 runtimeRequests, authorizing, results, oauthEvents, readyEvents, calls>>

PageInit ==
  /\ settings = PageSettings
  /\ Constructed
  /\ PageLoaded
  /\ HttpLoaded

PageNext ==
  \/ listen
  \/ unlisten
  \/ initialize
  \/ WindowMessageEvent
  \/ _oauthTokenHandler
  \/ handleRequest
  \/ AuthorizeSettled
  \/ _proxyOauth

PageSpec == PageInit /\ [][PageNext]_vars

\* The browser runs the content script and dispatches every message posted; the
\* page calls listen().
FairPageSpec ==
  /\ PageSpec
  /\ WF_vars(initialize)
  /\ WF_vars(listen)
  /\ WF_vars(WindowMessageEvent)

(***************************************************************************)
(* The relay of an HTTP request: the library of the page registers the     *)
(* request of an api-request event and posts it to the window, the content *)
(* script sends it to the background service, the service runs it with     *)
(* HttpProxy and answers, the content script posts the answer to the       *)
(* window and the library dispatches api-response.  The page can dispatch  *)
(* abort-api-request at any time.  The requests of the page have the ids   *)
(* 1, 2, ... in the order of their events.                                 *)
(***************************************************************************)
\* e.detail.payload of an api-request event: none, or a File.
Payloads == {Null, "file"}

\* The detail of the api-request event with the id `id'.
ApiRequest(id, payload) ==
  [id |-> id, url |-> "https://api.example/" \o ToString(id), method |-> "GET", payload |-> payload]

\* PayloadSerializer.serialize(payload) for a File; the type Null is the
\* payload of a detail that has none.
SafePayload(payload) == [type |-> payload, data |-> <<>>]

\* The detail _requestHandler registers and posts for the detail of the event:
\* the payload is set when the serialized payload is truthy.
RequestDetail(detail) ==
  [id |-> detail.id, url |-> detail.url, method |-> detail.method,
   payload |-> SafePayload(detail.payload)]

\* What fetch() ends with: a response, or a TypeError.
FetchOutcomes ==
  { [kind |-> "response", status |-> 200, text |-> "{}"],
    [kind |-> "throws", message |-> "Failed to fetch"] }

\* Date.now() at the head of HttpProxy.execute().
StartTimes == {5000}

\* HttpProxy.execute() that lets the failure of _proxy() through.
execute_NoCatch(request, fetched, startTime, now) ==
  IF fetched.kind = "throws"
    THEN Thrown(PlainError(fetched.message))
    ELSE Returned([responseData |-> [response |-> fetched.text, status |-> fetched.status,
                                     readyState |-> 4],
                   stats |-> [loadingTime |-> now - startTime, startTime |-> startTime]])

\* HttpProxy.execute(), from the end of fetch() on: the result of _proxy(), or
\* the result that tells the failure.
execute(request, fetched, startTime, now) ==
  IF fetched.kind = "throws"
    THEN Returned([responseData |-> [error |-> TRUE, message |-> fetched.message],
                   stats |-> [loadingTime |-> 0, startTime |-> startTime]])
    ELSE Returned([responseData |-> [response |-> fetched.text, status |-> fetched.status,
                                     readyState |-> 4],
                   stats |-> [loadingTime |-> now - startTime, startTime |-> startTime]])

\* The library's _messageHandler(e) for the init message of the content
\* script: _extensionDetected().
_extensionDetected ==
  /\ windowMessages # <<>>
  /\ Head(windowMessages) = informInstalled
  /\ windowMessages' = Tail(windowMessages)
  /\ _hasExtension' = TRUE
  /\ readyEvents' = readyEvents + 1
  /\ UNCHANGED <<orchestrator, http, appListening, contentListening, runtimeRequests,
                 authorizing, runtimeResponses, results, oauthEvents, calls>>

\* The page dispatches api-request: _requestHandler(e) up to
\* `await PayloadSerializer.serialize(...)' when the request has a payload, and
\* to its end when it has none.
_requestHandler ==
  /\ apiRequested < MaxApiRequests
  /\ apiRequested' = apiRequested + 1
  /\ \E payload \in Payloads :
       LET detail == ApiRequest(apiRequested + 1, payload) IN
       IF ~_hasExtension
         THEN UNCHANGED <<_activeRequests, requestMessages, serializing>>
       ELSE IF Truthy(payload)
         THEN /\ serializing' = serializing \cup {detail}
              /\ UNCHANGED <<_activeRequests, requestMessages>>
       ELSE /\ _activeRequests' = (detail.id :> RequestDetail(detail)) @@ _activeRequests
            /\ requestMessages' = Append(requestMessages,
                                         AppMessage("api-console-request", RequestDetail(detail)))
            /\ UNCHANGED serializing
  /\ UNCHANGED <<orchestrator, page, fetchMessages, fetching, fetchResults, responseMessages,
                 apiResponses, aborted, sendResponses>>

\* _requestHandler(e) after `await PayloadSerializer.serialize(...)': the
\* payload is serialized, or the File cannot be read and the handler ends there.
Serialized ==
  /\ \E detail \in serializing :
       /\ serializing' = serializing \ {detail}
       /\ \/ /\ _activeRequests' = (detail.id :> RequestDetail(detail)) @@ _activeRequests
             /\ requestMessages' = Append(requestMessages,
                                          AppMessage("api-console-request", RequestDetail(detail)))
          \/ UNCHANGED <<_activeRequests, requestMessages>>
  /\ UNCHANGED <<orchestrator, page, fetchMessages, fetching, fetchResults, responseMessages,
                 apiResponses, aborted, sendResponses, apiRequested>>

\* The page dispatches abort-api-request for one of its requests:
\* _abortHandler(e).
_abortHandler ==
  /\ _hasExtension
  /\ \E id \in (1..apiRequested) \ aborted :
       /\ _activeRequests' = [k \in DOMAIN _activeRequests \ {id} |-> _activeRequests[k]]
       /\ aborted' = aborted \cup {id}
  /\ UNCHANGED <<orchestrator, page, serializing, requestMessages, fetchMessages, fetching,
                 fetchResults, responseMessages, apiResponses, sendResponses, apiRequested>>

\* The content script: _messageHandler(e) and _proxyRequest(data) up to
\* `await chrome.runtime.sendMessage'.
_proxyRequest ==
  /\ requestMessages # <<>>
  /\ requestMessages' = Tail(requestMessages)
  /\ fetchMessages' = Append(fetchMessages, [payload |-> "fetch", data |-> Head(requestMessages).data])
  /\ UNCHANGED <<orchestrator, page, _activeRequests, serializing, fetching, fetchResults,
                 responseMessages, apiResponses, aborted, sendResponses, apiRequested>>

\* The service: handleRequest(message), handleFetch(data) and
\* HttpProxy.execute() up to `await fetch(url, init)'.
handleFetch ==
  /\ fetchMessages # <<>>
  /\ fetchMessages' = Tail(fetchMessages)
  /\ \E startTime \in StartTimes :
       fetching' = fetching \cup {[data |-> Head(fetchMessages).data, startTime |-> startTime]}
  /\ sendResponses' = (Head(fetchMessages).data.id :> <<>>) @@ sendResponses
  /\ UNCHANGED <<orchestrator, page, _activeRequests, serializing, requestMessages, fetchResults,
                 responseMessages, apiResponses, aborted, apiRequested>>

\* The service: fetch() ends, execute() settles and handleFetch(data) goes on:
\* it sets the id of the result and calls sendResponse.  When execute() rejects
\* handleFetch ends with it and nothing is sent.
FetchSettled ==
  /\ \E call \in fetching, fetched \in FetchOutcomes, now \in Times :
       LET settled == execute(call.data, fetched, call.startTime, now) IN
       /\ fetching' = fetching \ {call}
       /\ IF ~settled.threw
            THEN LET result == [id |-> call.data.id] @@ settled.value IN
                 /\ fetchResults' = Append(fetchResults, result)
                 /\ sendResponses' = [sendResponses EXCEPT ![call.data.id] =
                                         Append(@, [result |-> result, fetched |-> fetched])]
            ELSE UNCHANGED <<fetchResults, sendResponses>>
  /\ UNCHANGED <<orchestrator, page, _activeRequests, serializing, requestMessages, fetchMessages,
                 responseMessages, apiResponses, aborted, apiRequested>>

\* The content script: _proxyRequest(data) after `await chrome.runtime.sendMessage'.
_proxyResponse ==
  /\ fetchResults # <<>>
  /\ fetchResults' = Tail(fetchResults)
  /\ responseMessages' = Append(responseMessages,
                                ExtensionMessage("api-console-response", Head(fetchResults)))
  /\ UNCHANGED <<orchestrator, page, _activeRequests, serializing, requestMessages, fetchMessages,
                 fetching, apiResponses, aborted, sendResponses, apiRequested>>

\* _responseReady(data) that does not look for the entry of the request.
_responseReady_Unchecked ==
  /\ responseMessages # <<>>
  /\ responseMessages' = Tail(responseMessages)
  /\ LET response == Head(responseMessages).data
         request == IF response.id \in DOMAIN _activeRequests
                      THEN _activeRequests[response.id] ELSE Undefined
     IN /\ _activeRequests' = [k \in DOMAIN _activeRequests \ {response.id} |-> _activeRequests[k]]
        /\ apiResponses' = [apiResponses EXCEPT ![response.id] =
                                Append(@, [request |-> request] @@ response)]
  /\ UNCHANGED <<orchestrator, page, serializing, requestMessages, fetchMessages, fetching,
                 fetchResults, aborted, sendResponses, apiRequested>>

\* The library's _messageHandler(e) for an answer of the extension:
\* _responseReady(data), with the api-response event it dispatches.
_responseReady ==
  /\ responseMessages # <<>>
  /\ responseMessages' = Tail(responseMessages)
  /\ LET response == Head(responseMessages).data IN
     IF ~_hasExtension \/ response.id \notin DOMAIN _activeRequests
       THEN UNCHANGED <<_activeRequests, apiResponses>>
       ELSE /\ _activeRequests' = [k \in DOMAIN _activeRequests \ {response.id} |->
                                       _activeRequests[k]]
            /\ apiResponses' = [apiResponses EXCEPT ![response.id] =
                                  Append(@, [request |-> _activeRequests[response.id]] @@ response)]
  /\ UNCHANGED <<orchestrator, page, serializing, requestMessages, fetchMessages, fetching,
                 fetchResults, aborted, sendResponses, apiRequested>>

\* The page after listen() and initialize(), with the init message of the
\* content script posted and not yet dispatched.
HttpInit ==
  /\ settings = PageSettings
  /\ Constructed
  /\ _hasExtension = FALSE
  /\ appListening = TRUE
  /\ contentListening = TRUE
  /\ windowMessages = <<informInstalled>>
  /\ runtimeRequests = <<>>
  /\ authorizing = {}
  /\ runtimeResponses = <<>>
  /\ results = <<>>
  /\ oauthEvents = <<>>
  /\ readyEvents = 0
  /\ calls = [listen |-> 1, informInstalled |-> 2, requested |-> 0]
  /\ HttpLoaded

HttpNext ==
  \/ _extensionDetected
  \/ _requestHandler
  \/ Serialized
  \/ _abortHandler
  \/ _proxyRequest
  \/ handleFetch
  \/ FetchSettled
  \/ _proxyResponse
  \/ _responseReady

HttpSpec == HttpInit /\ [][HttpNext]_vars

(***************************************************************************)
(* Properties.                                                             *)
(***************************************************************************)
\* The request state of the attempt, once the state getter has run.
RequestState == _stateValue

\* The last handler processed a redirect of the popup tab.
RedirectHandled == last.op = "_tabUpdatedHandler" /\ last.input.redirect

\* The parameters of the redirect the last handler processed.
RedirectPayload == last.input.params

\* C1: the promise of authorize() is settled at most once: the settle functions
\* are called at most once in all, both are cleared after that call, and a later
\* _reportOAuthError or _handleTokenInfo delivers nothing.
C1_SettledAtMostOnce ==
  /\ deliveries <= 1
  /\ deliveries = 1 => ~_rejectFunction /\ ~_resolveFunction
  /\ deliveries = 0 => outcome = Pending

\* C1 witness: a second redirect ended in _reportOAuthError after the promise
\* was resolved with a token.
C1_Witness ==
  /\ matched = 2
  /\ RedirectHandled
  /\ last.call[1] = "_reportOAuthError"
  /\ outcome.kind = "TokenInfo"
  /\ deliveries = 1

\* The redirect the last handler processed was the first one of the attempt:
\* the promise was pending when it arrived.
FirstRedirectHandled == RedirectHandled /\ matched = 1

\* No event is left that could settle the promise: authorize() has run to its
\* end or to its wait, no tab listener is registered, no token request is in flight.
Quiescent == pc = "running" /\ ~tabHandlers /\ pendingFetches = 0

\* C2: every authorize() call reaches a terminal outcome once the popup tab has
\* navigated to the redirect URI or was closed and the token requests have ended:
\* the promise is not left pending when no event is left that could settle it.
C2_EveryAttemptSettles == Quiescent => outcome # Pending

\* C3: a redirect whose state (not empty) differs from the request state ends in
\* _reportOAuthError with invalid_state, whatever else it carries: neither
\* _handleTokenInfo nor the code exchange is called for it, and when it is the
\* first redirect the attempt has failed with invalid_state, no token request
\* was sent and no token was handled.
C3_StateMismatchIsFatal ==
  (RedirectHandled /\ Truthy(RedirectPayload["state"]) /\ RedirectPayload["state"] # RequestState)
  => /\ last.call[1] = "_reportOAuthError"
     /\ last.call[3] = "invalid_state"
     /\ matched = 1 =>
          /\ outcome.kind = "AuthorizationError"
          /\ outcome.code = "invalid_state"
          /\ fetchesSent = 0
          /\ _tokenResponse = Undefined

\* C3 witness: the first redirect carried another state together with a token and a code.
C3_Witness ==
  /\ FirstRedirectHandled
  /\ RedirectPayload["state"] = "xyz"
  /\ RedirectPayload["access_token"] = "tok"
  /\ RedirectPayload["code"] = "c0de"
  /\ outcome.kind = "AuthorizationError"
  /\ outcome.code = "invalid_state"

\* C4: when the popup tab is closed before a navigation to the redirect URI was
\* handled, the attempt has failed with no_response.
C4_CloseReportsNoResponse ==
  (tab = "closed" /\ matched = 0)
  => outcome = AuthorizationError("No response has been recorded.", "no_response", RequestState)

\* C5: when the popup tab cannot be created, the promise of authorize() is
\* rejected with an AuthorizationError popup_blocked that carries the request state.
C5_PopupBlockedRejects ==
  (last.op = "_authorizePopup" /\ last.call[1] = "throw")
  => /\ outcome.kind = "AuthorizationError"
     /\ outcome.code = "popup_blocked"
     /\ outcome.state = RequestState

\* The redirect carries one of the parameters of an authorization response.
CarriesOAuthParameter(p) ==
  p["state"] # Null \/ p["error"] # Null \/ p["access_token"] # Null \/ p["code"] # Null

\* C6: the parameters of a redirect are validated in a fixed order: no state ->
\* no_state; a state other than the request state -> invalid_state; an error ->
\* the code of the server; else the handling of the grant (the token, the code
\* exchange, or no_code).  A first redirect that ends in an error fails the
\* attempt with that code.
C6_ValidationOrder ==
  (RedirectHandled /\ CarriesOAuthParameter(RedirectPayload))
  => LET p == RedirectPayload
         call == last.call
         reported == IF call[1] = "_reportOAuthError" THEN call[3] ELSE "<no error>"
     IN /\ ~Truthy(p["state"]) => reported = "no_state"
        /\ (Truthy(p["state"]) /\ p["state"] # RequestState) => reported = "invalid_state"
        /\ (p["state"] = RequestState /\ p["error"] # Null) => reported = p["error"]
        /\ (p["state"] = RequestState /\ p["error"] = Null)
             => (call[1] \in {"_handleTokenInfo", "exchangeCode"} \/ reported = "no_code")
        /\ (matched = 1 /\ call[1] = "_reportOAuthError")
             => (outcome.kind = "AuthorizationError" /\ outcome.code = reported)

\* C6 witness: a first redirect without state that carries an error, a token
\* and a code has failed the attempt with no_state.
C6_Witness ==
  /\ FirstRedirectHandled
  /\ RedirectPayload["state"] = Null
  /\ RedirectPayload["error"] = "invalid_client"
  /\ RedirectPayload["access_token"] = "tok"
  /\ RedirectPayload["code"] = "c0de"
  /\ outcome.kind = "AuthorizationError"
  /\ outcome.code = "no_state"

\* The attempt failed with invalid_state on its first redirect.
FailedWithInvalidState ==
  /\ FirstRedirectHandled
  /\ outcome.kind = "AuthorizationError"
  /\ outcome.code = "invalid_state"

DirectResponseParsed ==
  /\ settings.grantType \in DirectGrants
  /\ last.op = "requestTokenInfo"
  /\ last.input.status = 200
  /\ last.input.body \notin {EmptyBody, UnreadBody, MalformedBody}

\* The request state of a direct grant: the state getter may not have run.
DirectRequestState == IF Truthy(_stateValue) THEN _stateValue ELSE settings.state

C9_ServerErrorIsReported ==
  (RedirectHandled /\ RedirectPayload["state"] = RequestState /\ RedirectPayload["error"] # Null)
  => LET p == RedirectPayload
         call == last.call
         described == Truthy(p["error_description"])
     IN /\ call[1] = "_reportOAuthError"
        /\ call[3] = p["error"]
        /\ described => call[2] = p["error_description"]
        /\ (~described /\ p["error"] \notin ErrorCodes) => call[2] = "Unknown error"
        /\ (~described /\ p["error"] \in ErrorCodes) => call[2] \notin {"Unknown error", "", Null}
        /\ (~described /\ p["error"] = "invalid_client") => call[2] = "Client authentication failed."
        /\ matched = 1 =>
             /\ outcome = AuthorizationError(call[2], p["error"], RequestState)
             /\ _tokenResponse = Undefined
             /\ fetchesSent = 0

\* C9 witness: the first redirect carried the request state, an error and its
\* description, and the attempt failed with them.
C9_Witness ==
  /\ FirstRedirectHandled
  /\ RedirectPayload["state"] = RequestState
  /\ RedirectPayload["error"] = "invalid_scope"
  /\ RedirectPayload["error_description"] = "described"
  /\ outcome.kind = "AuthorizationError"
  /\ outcome.code = "invalid_scope"
  /\ outcome.message = "described"

\* C10: every token info the promise of authorize() resolves with has an
\* access token that is not empty.
C10_TokenHasAccessToken ==
  outcome.kind = "TokenInfo" => Truthy(outcome.info.accessToken)

TokenResponseParsed ==
  /\ last.op = "requestTokenInfo"
  /\ last.input.status = 200
  /\ last.input.body \notin {EmptyBody, UnreadBody, MalformedBody}

\* C12: the token info of an authorization_code attempt carries the request
\* state, which is the state of the validated redirect, whatever state the
\* response of the token endpoint holds.
C12_TokenStateIsRequestState ==
  /\ (settings.grantType = code /\ last.op = "requestTokenInfo" /\ last.call[1] = "_handleTokenInfo")
       => /\ last.call[2].state = RequestState
          /\ _tokenResponse.state = RequestState
          /\ Truthy(RequestState)
  /\ (settings.grantType = code /\ outcome.kind = "TokenInfo")
       => outcome.info.state = RequestState

\* C12 witness: the code exchange answered with the state xyz and the attempt
\* resolved with the request state.
C12_Witness ==
  /\ settings.grantType = code
  /\ TokenResponseParsed
  /\ last.input.body["state"] = "xyz"
  /\ outcome.kind = "TokenInfo"
  /\ outcome.info.accessToken = "tok"
  /\ outcome.info.state = RequestState
  /\ RequestState # "xyz"

\* C13: only implicit and authorization_code create a tab and register the tab
\* listeners.  Every other grant type sends one token request from authorize()
\* (its access token URI being a URL), with the grant type as the grant_type of
\* the body, and never has a tab, a tab listener or a handled redirect.
C13_DispatchByGrantType ==
  /\ (tab # "none" \/ tabHandlers \/ pc = "creatingTab" \/ _popupTabInfo # NoTab \/ matched > 0)
       => settings.grantType \in {implicit, code}
  /\ (settings.grantType \notin {implicit, code} /\ pc = "running")
       => /\ tab = "none" /\ ~tabHandlers /\ _popupTabInfo = NoTab /\ matched = 0
          /\ IsValidUrl(settings.accessTokenUri)
               => (fetchesSent = 1 /\ requestBody.grant_type = settings.grantType)
  /\ (settings.grantType \in {implicit, code} /\ matched = 0) => fetchesSent = 0

\* C13 witness: a grant type the proxy does not know resolved with a token after
\* one request that named it.
C13_Witness ==
  /\ settings.grantType = CustomGrant
  /\ requestBody.grant_type = "urn:example:custom_grant"
  /\ fetchesSent = 1
  /\ tab = "none"
  /\ outcome.kind = "TokenInfo"

\* C14: at most one token request is sent in an authorize() attempt.
C14_AtMostOneTokenRequest == fetchesSent <= 1

\* The events of a tab that this instance did not create.
OtherTabEvent ==
  \/ \E url \in ChangeInfoUrls(OtherTab) : _tabUpdatedHandler(OtherTab, url)
  \/ _tabClosedHandler(OtherTab)

\* C15: an event of a tab other than the one this instance created changes
\* nothing of the instance: neither its fields, nor its promise, nor its tab,
\* nor its requests.
C15_OtherTabEventsIgnored ==
  [][OtherTabEvent =>
       UNCHANGED <<settings, _stateValue, _popupTabInfo, _resolveFunction, _rejectFunction,
                   _handlingPopupResponse, _tokenResponse, tabHandlers, pc, tab,
                   pendingFetches, fetchesSent, unhandled, outcome, deliveries, matched,
                   requestBody, requestHeaders, dateNow>>]_vars

\* C15 witness: the listener ran for another tab that showed the redirect URI
\* while the instance waited for its own tab.
C15_Witness ==
  /\ last.op = "_tabUpdatedHandler"
  /\ last.input.tabId = OtherTab
  /\ _popupTabInfo = OwnTab
  /\ tabHandlers
  /\ outcome = Pending
  /\ matched = 0

\* C16: a parsed response of the token endpoint with an error ends in
\* _reportOAuthError with that code; the message is the error_description when
\* there is one, else the sentence of the code, else `Unknown error'.  No token
\* is handled, and the attempt, pending until then, has failed with that code,
\* that message and the request state.  The grant type does not matter.
C16_TokenErrorIsReported ==
  (TokenResponseParsed /\ Truthy(last.input.body["error"]))
  => LET body == last.input.body
         described == Truthy(body["error_description"])
     IN /\ last.call[1] = "_reportOAuthError"
        /\ last.call[3] = body["error"]
        /\ described => last.call[2] = body["error_description"]
        /\ (~described /\ body["error"] = "invalid_client")
             => last.call[2] = "Client authentication failed."
        /\ (~described /\ body["error"] \notin ErrorCodes) => last.call[2] = "Unknown error"
        /\ matched <= 1 =>
             /\ outcome = AuthorizationError(last.call[2], body["error"], RequestState)
             /\ _tokenResponse = Undefined

\* C16 witness: the code exchange answered with invalid_client, no description
\* and a token, and the attempt failed with the sentence of invalid_client.
C16_Witness ==
  /\ settings.grantType = code
  /\ TokenResponseParsed
  /\ last.input.body["error"] = "invalid_client"
  /\ last.input.body["error_description"] = Null
  /\ last.input.body["access_token"] = "tok"
  /\ outcome = AuthorizationError("Client authentication failed.", "invalid_client", RequestState)
  /\ _tokenResponse = Undefined

\* The last handler was the end of the only token request of the attempt, which
\* the server answered: the promise was pending until then.
OnlyResponseHandled == last.op = "requestTokenInfo" /\ matched <= 1

\* The response is in one of the four classes that are refused unparsed.
Refused(response) ==
  response.status >= 400 \/ response.body = EmptyBody

\* C17 as stated: the responses of the token endpoint are classified in the
\* order 404, 500 and more, empty body, 400 to 499, each class failing the
\* attempt with request_error and with the sentence of the class as the message.
C17_ResponsesClassifiedBareMessage ==
  (OnlyResponseHandled /\ Refused(last.input))
  => LET status == last.input.status
         body == last.input.body
         sentence ==
           IF status = 404 THEN "Authorization URI is invalid. Received status 404."
           ELSE IF status >= 500 THEN "Authorization server error. Response code is: " \o ToString(status)
           ELSE IF body = EmptyBody THEN "Code response body is empty."
           ELSE "Client error: " \o BodyText(body)
     IN outcome = AuthorizationError(sentence, "request_error", RequestState)

\* C17 amended: the same classes in the same order, each failing the attempt
\* with request_error before the body is parsed; the message is `Couldn't
\* connect to the server. ' followed by the sentence of the class.  A 4xx
\* response without body reports the empty body, a 4xx response with an OAuth
\* error in its body reports request_error and not the code of the server.
C17_ResponsesClassified ==
  (OnlyResponseHandled /\ Refused(last.input))
  => LET status == last.input.status
         body == last.input.body
         sentence ==
           IF status = 404 THEN "Authorization URI is invalid. Received status 404."
           ELSE IF status >= 500 THEN "Authorization server error. Response code is: " \o ToString(status)
           ELSE IF body = EmptyBody THEN "Code response body is empty."
           ELSE "Client error: " \o BodyText(body)
     IN /\ outcome = AuthorizationError("Couldn't connect to the server. " \o sentence,
                                        "request_error", RequestState)
        /\ _tokenResponse = Undefined
        /\ (status = 499 /\ body = ErrorBody) => outcome.code # body["error"]

\* C17 witness: a response 499 whose body is an OAuth error failed the attempt
\* with request_error and a message that holds the body.
C17_Witness ==
  /\ OnlyResponseHandled
  /\ last.input.status = 499
  /\ last.input.body = ErrorBody
  /\ outcome.kind = "AuthorizationError"
  /\ outcome.code = "request_error"
  /\ outcome.message = "Couldn't connect to the server. Client error: {error=invalid_client;error_description=described;}"

\* C18: when fetch() rejects, the handler ends in _reportOAuthError with
\* request_error and a message that starts with `Couldn't connect to the
\* server.'; the attempt, pending until then, has failed with that error and
\* the request state, and nothing was thrown to nobody.  The grant type does
\* not matter.
C18_TransportFailureIsWrapped ==
  last.op = "fetch"
  => /\ last.call[1] = "_reportOAuthError"
     /\ last.call[3] = "request_error"
     /\ \E message \in TransportErrors : last.call[2] = "Couldn't connect to the server. " \o message
     /\ unhandled = Undefined
     /\ matched <= 1 => outcome = AuthorizationError(last.call[2], "request_error", RequestState)

\* C18 witness: the code exchange could not reach the server and the attempt
\* failed with request_error.
C18_Witness ==
  /\ last.op = "fetch"
  /\ settings.grantType = code
  /\ outcome = AuthorizationError("Couldn't connect to the server. Failed to fetch",
                                  "request_error", RequestState)

\* The last handler built the token info the promise was resolved with.
TokenDelivered == last.call[1] = "_handleTokenInfo" /\ outcome = Fulfilled(last.call[2])

\* The value of a field of the response or of the redirect the token info was
\* built from; a response that could not be read has no field.
Received(name, absent) ==
  IF last.op = "requestTokenInfo"
    THEN (IF last.input.body = UnreadBody THEN absent ELSE last.input.body[name])
    ELSE RedirectPayload[name]

\* C19: in every token info delivered, expiresIn is the expires_in of the server
\* when that is a number other than zero, and then expiresAssumed is false;
\* else expiresIn is 3600 and expiresAssumed is true.  expiresAt is the time of
\* the computation plus expiresIn * 1000.
C19_ExpiresComputed ==
  TokenDelivered
  => LET info == outcome.info
         raw == Received("expires_in", Null)
     IN /\ raw = "7200" => (info.expiresIn = 7200 /\ ~info.expiresAssumed)
        /\ raw \in {Null, "", "0", "soon"} => (info.expiresIn = 3600 /\ info.expiresAssumed)
        /\ dateNow \in Times
        /\ info.expiresAt = dateNow + info.expiresIn * 1000

\* C19 witness: a token with expires_in 7200 was delivered at the time 9000.
C19_Witness ==
  /\ TokenDelivered
  /\ Received("expires_in", Null) = "7200"
  /\ dateNow = 9000
  /\ outcome.info.expiresIn = 7200
  /\ outcome.info.expiresAt = 7209000
  /\ ~outcome.info.expiresAssumed

\* C20: in every token info delivered, scope is the list of the scopes of the
\* server (its scope split on the spaces) when the server sent a scope that is
\* not empty, else the scopes of the configuration, else the empty list.
C20_ScopeComputed ==
  TokenDelivered
  => LET info == outcome.info
         raw == Received("scope", NoScope)
         received == raw.present /\ raw.chars # <<>>
     IN /\ raw = ScopeString(<<"a">>) => info.scope = <<"a">>
        /\ raw = ScopeString(<<"a", " ", "c">>) => info.scope = <<"a", "c">>
        /\ received => Len(info.scope) > 0
        /\ (~received /\ settings.scopes.present) => info.scope = settings.scopes.list
        /\ (~received /\ ~settings.scopes.present) => info.scope = <<>>

\* C20 witness: the configuration asked for a and b, the server granted a and c.
C20_Witness ==
  /\ TokenDelivered
  /\ settings.scopes = ScopeList(<<"a", "b">>)
  /\ Received("scope", NoScope) = ScopeString(<<"a", " ", "c">>)
  /\ outcome.info.scope = <<"a", "c">>

\* C21: in every token info delivered, tokenType is "Bearer" when the server
\* sent no token_type, and the token_type of the server otherwise.
C21_TokenTypeDefaultsToBearer ==
  TokenDelivered
  => LET raw == Received("token_type", Null)
     IN outcome.info.tokenType = (IF raw = Null THEN "Bearer" ELSE raw)

\* authorize() has built the authorization URL and asked for the popup tab.
PopupUrlBuilt == last.op = "authorize" /\ last.call[1] = "chrome.tabs.create"

\* The response type of the authorization request.
ResponseType ==
  IF Truthy(settings.responseType) THEN settings.responseType
  ELSE grantResponseMapping(settings.grantType)

ClientCredentialsRequested ==
  /\ last.op = "authorize"
  /\ last.call[1] = "requestTokenInfo"
  /\ settings.grantType = clientCredentials

C27_NoTabEventAfterTheFirst ==
  /\ tab = "closed" => ~tabHandlers
  /\ matched <= 1

\* The popup tab is closed after a navigation to the redirect URI was handled.
CloseAfterRedirect == _handlingPopupResponse /\ _tabClosedHandler(OwnTab)

\* C28: the close of the popup tab after a navigation to the redirect URI was
\* handled reports nothing and leaves the promise, the token and the token
\* requests as they are, also while the code exchange is in flight; and once
\* the close was handled with no redirect before it, no navigation is processed.
C28_NavigationAndCloseExclusive ==
  [][/\ CloseAfterRedirect
          => /\ last'.call = NoCall
             /\ UNCHANGED <<outcome, deliveries, _resolveFunction, _rejectFunction,
                            _stateValue, _tokenResponse, pendingFetches, fetchesSent,
                            unhandled, matched>>
     /\ (tab = "closed" /\ ~_handlingPopupResponse)
          => UNCHANGED <<matched, _handlingPopupResponse, tab>>]_vars

\* C28 witness: the popup tab was closed while the code exchange was in flight.
C28_Witness ==
  /\ last = Handled("_tabClosedHandler", OwnTab, NoCall)
  /\ _handlingPopupResponse
  /\ settings.grantType = code
  /\ pendingFetches = 1
  /\ outcome = Pending
  /\ tab = "closed"

\* C29: the first redirect whose payload is empty or has none of the parameters
\* state, error, access_token and code fails the attempt with popup_error.
C29_UnprocessableRedirectFails ==
  (FirstRedirectHandled /\ ~_validateTokenResponse(RedirectPayload))
  => (outcome.kind = "AuthorizationError" /\ outcome.code = "popup_error")

\* The URL begins with the value, a URI without query string or fragment.
UrlStartsWith(url, value) == url.base = value

\* C30: a navigation of the popup tab is handled as the redirect only when its
\* URL begins with the redirect URI of the settings.
C30_RedirectMatchesByPrefix ==
  RedirectHandled => UrlStartsWith(last.input.url, settings.redirectUri)

\* The fields of a token info the page is to receive.
TokenFields == {"state", "accessToken", "tokenType", "refreshToken", "expiresIn",
                "expiresAt", "expiresAssumed", "scope"}

\* C24: the oauth2-error event of an attempt whose authorize() was rejected with
\* an AuthorizationError has the message, the code and the state of that error.
C24_ErrorRelayedUnchanged ==
  \A i \in 1..Len(oauthEvents) :
    LET result == results[oauthEvents[i].attempt]
        event == oauthEvents[i].value
    IN result.kind = "AuthorizationError"
       => /\ event.type = "oauth2-error"
          /\ event.detail.message = result.message
          /\ event.detail.code = result.code
          /\ "state" \in DOMAIN event.detail
          /\ event.detail.state = result.state

\* C25: the oauth2-token-response event of an attempt whose authorize() was
\* fulfilled has state, accessToken, tokenType, refreshToken, expiresIn,
\* expiresAt, expiresAssumed and scope, each with the value of the token info.
C25_TokenRelayedUnchanged ==
  \A i \in 1..Len(oauthEvents) :
    LET result == results[oauthEvents[i].attempt]
        event == oauthEvents[i].value
    IN result.kind = "TokenInfo"
       => /\ event.type = "oauth2-token-response"
          /\ \A field \in TokenFields :
               /\ field \in DOMAIN event.detail
               /\ event.detail[field] = result.info[field]

\* C26: when the content script has run initialize() and the library has run
\* listen(), in either order, and the library stays listening, the library
\* receives the init message: hasExtension becomes true and apicproxyready is
\* dispatched.  hasExtension, once true, stays true.
C26_HandshakeCompletes ==
  /\ (<>[]appListening) => <>(_hasExtension /\ readyEvents > 0)
  /\ [][_hasExtension => _hasExtension']_vars

\* C26 witness: the content script ran first and its init message was
\* dispatched before the library listened; the library was detected by the
\* answer of the content script to its own message, and stopped listening after.
C26_Witness ==
  /\ _hasExtension
  /\ readyEvents = 1
  /\ calls.listen = 1
  /\ calls.informInstalled = 2
  /\ ~appListening
  /\ windowMessages = <<>>

\* An event of the popup tab that no listener of the instance received.
LostTabEvent ==
  last.op \in {"chrome.tabs.onUpdated", "chrome.tabs.onRemoved"} /\ last.call = NoCall

\* C31: no terminal event of the popup tab is lost: a navigation to the redirect
\* URI or a close of the tab, at any time after the tab was made, is handled by
\* the instance, also when it comes before the promise of chrome.tabs.create
\* is resolved.
C31_NoTabEventLost == ~LostTabEvent

\* The authorization request uses PKCE.
PkceUsed == settings.pkce /\ IncludesCode(ResponseType)

\* The token request of the code exchange was sent.
CodeExchangeSent == requestBody.grant_type = "authorization_code"

\* C32: with pkce and a response type that contains `code', the authorization
\* URL carries code_challenge, the challenge of the code verifier of the
\* instance, and code_challenge_method=S256; the code verifier is set once in
\* an attempt and never changes; the code exchange sends that verifier as
\* code_verifier; without pkce the URL has no code_challenge, no verifier is
\* generated and the exchange sends no code_verifier.
C32_PkceVerifierMatchesChallenge ==
  /\ [](PopupUrlBuilt
        => LET params == last.call[2].searchParams IN
           IF PkceUsed
             THEN /\ _codeVerifierValue \in CodeVerifiers
                  /\ "code_challenge" \in DOMAIN params
                  /\ params["code_challenge"] = generateCodeChallenge(_codeVerifierValue)
                  /\ "code_challenge_method" \in DOMAIN params
                  /\ params["code_challenge_method"] = "S256"
             ELSE /\ "code_challenge" \notin DOMAIN params
                  /\ "code_challenge_method" \notin DOMAIN params)
  /\ [](CodeExchangeSent
        => IF PkceUsed THEN requestBody.code_verifier = _codeVerifierValue
           ELSE ~settings.pkce => requestBody.code_verifier = Null)
  /\ [](~settings.pkce => _codeVerifierValue = Null)
  /\ [][_codeVerifierValue # Null => _codeVerifierValue' = _codeVerifierValue]_vars

\* C32 witness: the code exchange of an attempt with PKCE was sent with the
\* second of the verifiers, and a redirect was handled before.
C32_Witness ==
  /\ PkceUsed
  /\ CodeExchangeSent
  /\ _codeVerifierValue = "0ther"
  /\ requestBody.code_verifier = "0ther"
  /\ requestBody.code = "c0de"
  /\ matched = 1

\* The last handler compared the state of a redirect with the request state.
StateCompared ==
  /\ RedirectHandled
  /\ _validateTokenResponse(RedirectPayload)
  /\ Truthy(RedirectPayload["state"])

\* The last handler refused the redirect for its state.
RefusedForItsState ==
  last.call = ReportCall("The state value returned by the authorization server is invalid.",
                         "invalid_state")

\* C33: the request state is fixed for the lifetime of an attempt: it is the
\* state of the configuration when there is one and else a generated string, it
\* never changes once the state getter has run, and the state parameter of the
\* authorization URL, the value a redirect's state is compared with and the
\* state of every AuthorizationError of the attempt are that one value.
C33_StateFixedForTheAttempt ==
  /\ [](Truthy(RequestState)
        => IF Truthy(settings.state) THEN RequestState = settings.state
           ELSE RequestState \in RandomStrings)
  /\ [][Truthy(RequestState) => RequestState' = RequestState]_vars
  /\ [](PopupUrlBuilt => last.call[2].searchParams["state"] = RequestState)
  /\ [](StateCompared => (RefusedForItsState <=> RedirectPayload["state"] # RequestState))
  /\ [](outcome.kind = "AuthorizationError" => outcome.state = RequestState)
  /\ [](unhandled # Undefined => unhandled.state = RequestState)

\* C33 witness: an attempt without a configured state was refused for the state
\* of its second redirect, after an exchange was sent for the first one; the
\* error has the generated state.
C33_Witness ==
  /\ settings.state = Null
  /\ RequestState = "gen2"
  /\ StateCompared
  /\ RefusedForItsState
  /\ matched = 2
  /\ outcome = AuthorizationError("The state value returned by the authorization server is invalid.",
                                  "invalid_state", "gen2")

\* C34: the configuration the instance reads is the same at every step of an
\* attempt: from authorize() on, no step changes the settings or a value they
\* refer to, whether the step is one of the instance or a change the caller
\* makes to the object it passed.
C34_ConfigurationIsReadOnly == [][pc # "constructed" => settings' = settings]_vars

\* authorize() has sent the token request of a grant that needs no popup and is
\* not client_credentials.
OtherDirectGrantRequested ==
  /\ last.op = "authorize"
  /\ last.call[1] = "requestTokenInfo"
  /\ settings.grantType # clientCredentials

\* C35: the token request of every grant other than client_credentials with
\* deliveryMethod "header" has neither client_id nor client_secret in its body,
\* and has a header named deliveryName ("authorization" when there is none) with
\* the value "Basic " and the base64 of clientId:clientSecret.
C35_HeaderDeliveryForEveryGrant ==
  (OtherDirectGrantRequested \/ CodeExchangeSent) /\ settings.deliveryMethod = "header"
  => LET name == IF settings.deliveryName = Null THEN "authorization" ELSE settings.deliveryName
         clientId == IF settings.clientId = Null THEN "" ELSE settings.clientId
         clientSecret == IF settings.clientSecret = Null THEN "" ELSE settings.clientSecret
     IN /\ requestBody.client_id = Null
        /\ requestBody.client_secret = Null
        /\ DOMAIN requestHeaders = {"content-type", name}
        /\ requestHeaders[name] = "Basic " \o btoa(clientId \o ":" \o clientSecret)

\* The URL of the redirect the last handler processed, with only its query
\* string when it has one, and else with its fragment in the place of the query.
PayloadAlone ==
  LET url == last.input.url IN
  [base |-> url.base,
   search |-> IF url.search # EmptyParams THEN url.search ELSE url.hash,
   hash |-> EmptyParams]

\* C36: the authorization data of a redirect is the query string of the URL
\* when that is not empty and its fragment otherwise: the handler reads these
\* parameters and ends as it does for the URL without the other part, so that a
\* fragment next to a query string changes nothing.
C36_QueryBeforeFragment ==
  RedirectHandled
  => /\ RedirectPayload = PayloadAlone.search
     /\ last.call = _processPopupResponseUrl(PayloadAlone, RequestState, dateNow)

\* C36 witness: a redirect whose query string has no OAuth parameter and whose
\* fragment has the token: nothing is done with the token.
C36_Witness ==
  /\ RedirectHandled
  /\ last.input.url.search = Params(Null, Null, Null, Null, Null, "v")
  /\ last.input.url.hash = Params(RequestState, Null, Null, "tok", "c0de", Null)
  /\ last.call = NoCall
  /\ outcome = Pending

\* C37: once _abortHandler has run for a request id, no api-response event
\* with that id is dispatched: no later step of the relay adds an event to the
\* api-response events of an aborted id.
C37_NoResponseAfterAbort ==
  [][\A id \in aborted : apiResponses'[id] = apiResponses[id]]_vars

\* The ids the page can give to its requests.
RequestIds == 1..MaxApiRequests

\* The details _requestHandler can register with the id `id'.
RegisteredDetails(id) ==
  {RequestDetail(ApiRequest(id, payload)) : payload \in Payloads}

\* The step dispatches an api-response event with the id `id'.
DispatchesResponse(id) == apiResponses'[id] # apiResponses[id]

\* C38: the library dispatches at most one api-response per registered request.
\* A step dispatches an api-response with an id only when the table has an
\* entry of that id (a response without an entry is dropped), it dispatches one
\* event, whose id is that of the response message and whose request is the
\* entry, and it removes the entry; so every id has at most one event, the
\* request of the event is a detail registered with the id of the event, and
\* no entry is left for it.
C38_OneResponsePerRegisteredRequest ==
  /\ [][\A id \in RequestIds :
          DispatchesResponse(id) =>
            /\ id \in DOMAIN _activeRequests
            /\ responseMessages # <<>>
            /\ Head(responseMessages).data.id = id
            /\ apiResponses'[id] = Append(apiResponses[id], [request |-> _activeRequests[id]]
                                                              @@ Head(responseMessages).data)
            /\ id \notin DOMAIN _activeRequests']_vars
  /\ [](\A id \in RequestIds :
          /\ Len(apiResponses[id]) <= 1
          /\ \A i \in 1..Len(apiResponses[id]) :
               /\ apiResponses[id][i].id = id
               /\ apiResponses[id][i].request \in RegisteredDetails(id)
               /\ id \notin DOMAIN _activeRequests)

\* Case of C38: the response of request 1 is dispatched, and the response of
\* request 2, aborted, went through the relay and is dropped.
C38_Witness ==
  /\ Len(apiResponses[1]) = 1
  /\ apiResponses[1][1].request = RequestDetail(ApiRequest(1, Null))
  /\ 2 \in aborted
  /\ 2 \in DOMAIN sendResponses
  /\ Len(sendResponses[2]) = 1
  /\ fetchResults = <<>>
  /\ responseMessages = <<>>
  /\ apiResponses[2] = <<>>

\* The 'fetch' message of the request `id' is received and its HTTP call has ended.
FetchEnded(id) == id \in DOMAIN sendResponses /\ \A call \in fetching : call.data.id # id

TokenResponseProcessed == RedirectHandled /\ _validateTokenResponse(RedirectPayload)

\* C40: the error code unknown_state is unreachable.  processTokenResponse is
\* entered only when the grant type is implicit or authorization_code, no
\* handler ends with the report of unknown_state, and no error of the attempt,
\* delivered or unhandled, has that code.
C40_UnknownStateIsUnreachable ==
  /\ TokenResponseProcessed => settings.grantType \in {implicit, code}
  /\ last.call # ReportCall("The authorization process has an invalid state. This should never happen.",
                            "unknown_state")
  /\ outcome.kind = "AuthorizationError" => outcome.code # "unknown_state"
  /\ unhandled # Undefined => unhandled.code # "unknown_state"

\* Case of C40: processTokenResponse went past the tests of the state and of
\* the error for a grant of a code, and reached the branch of the grant type
\* that comes last before the report of unknown_state.
C40_Witness ==
  /\ TokenResponseProcessed
  /\ RedirectPayload["state"] = RequestState
  /\ ~Has(RedirectPayload, "error")
  /\ settings.grantType = code
  /\ settings.responseType # "id_token"
  /\ last.call = ExchangeCall("c0de")

====
